---- MODULE Spec2Model ----
(***************************************************************************)
(* The step sequencers of the Raft SDK: UserPosition.getManageSteps and    *)
(* UserSavings.getManageSavingsSteps, asynchronous generators that plan    *)
(* the whitelist / approve / permit steps of an operation and then yield   *)
(* the terminal manage step.  A generator is a state machine: Init is the  *)
(* state right after the generator object was created (no code of the body *)
(* has run), and every action is one call of next(v) by the consumer,      *)
(* which runs the body up to the next yield, return or throw.              *)
(***************************************************************************)
EXTENDS Integers, Sequences, FiniteSets, TLC

VARIABLES
    method,                     \* which generator this run is about
    underlyingCollateralToken,  \* this.underlyingCollateralToken
    collateralChange,           \* argument of getManageSteps
    debtChange,                 \* argument of getManageSteps
    amount,                     \* argument of getManageSavingsSteps
    options,                    \* the options object (prefetch fields included)
    isEoa,                      \* what isEoaAddress reports for the signer
    chain,                      \* on-chain whitelist flag and allowances
    pc,                         \* where the generator is suspended
    plan,                       \* the constants the body computes before the first yield
    stepCounter,                \* let stepCounter
    collateralPermitSignature,  \* let collateralPermitSignature
    rPermitSignature,           \* let rPermitSignature
    yielded,                    \* history: the steps yielded so far
    permitResumes,              \* history: [token, value injected] at each resume after a permit step
    error,                      \* the message of the error thrown, <<>> if none
    driverPc,                   \* where UserPosition.manage stands, "none" when no driver runs
    driverPermitSignature,      \* manage: let collateralPermitSignature (the value it injects)
    driverError,                \* the error manage rejected with, <<>> if none
    log,                        \* history: what manage did, in order
    invocation                  \* the public operation or exported function called, if any: name,
                                \* arguments, outcome

\* the variables of UserPosition.manage
driverVars == <<driverPc, driverPermitSignature, driverError, log>>

vars == <<method, underlyingCollateralToken, collateralChange, debtChange, amount, options,
          isEoa, chain, pc, plan, stepCounter, collateralPermitSignature, rPermitSignature,
          yielded, permitResumes, error, driverPc, driverPermitSignature, driverError, log, invocation>>

----------------------------------------------------------------------------
(* Bounds of the model *)

MaxAmount == 2
MaxTime == 1

(* Optional values: undefined is the empty set, a defined value x is {x}. *)
undefined == {}
Some(x) == {x}
Get(o) == CHOOSE x \in o : TRUE
\* a ?? b
Coalesce(o, d) == IF o = undefined THEN d ELSE Get(o)

----------------------------------------------------------------------------
(* Decimal: amounts are integers; MAX_DECIMAL exceeds every amount used. *)

MAX_DECIMAL == MaxAmount + 2
DEBT_CHANGE_TO_CLOSE == MAX_DECIMAL * (-1)
abs(x) == IF x < 0 THEN -x ELSE x

----------------------------------------------------------------------------
(* Configuration *)

R_TOKEN == "R"
ZeroAddress == "0x0000"

UNDERLYING_COLLATERAL_TOKENS == {"wstETH", "wcrETH"}
WRAPPABLE_CAPPED_COLLATERAL_TOKENS == {"rETH"}
COLLATERAL_TOKENS == {"ETH", "stETH", "wstETH", "rETH", "wcrETH"}

\* underlyingTokensConfig[u].supportedCollateralTokens
SupportedCollateralTokens(u) ==
    IF u = "wstETH" THEN {"stETH", "wstETH"} ELSE {"rETH", "wcrETH"}

\* tokensConfig[token].address
getTokenAddress(token) ==
    CASE token = "ETH" -> ZeroAddress
      [] token = "stETH" -> "0xae7a"
      [] token = "wstETH" -> "0x7f39"
      [] token = "rETH" -> "0xae78"
      [] token = "wcrETH" -> "0xb69e"
      [] token = "R" -> "0x1830"

\* tokensConfig[token].supportsPermit
supportsPermit(token) == token \in {"wstETH", "wcrETH", "R"}

isWrappableCappedCollateralToken(token) == token \in WRAPPABLE_CAPPED_COLLATERAL_TOKENS
isUnderlyingCollateralToken(token) == token \in UNDERLYING_COLLATERAL_TOKENS

\* PositionWithRunner.isUnderlyingCollateralToken
thisIsUnderlyingCollateralToken(u, token) == u = token

\* null for a token without an ERC-20 contract (native ETH)
getTokenContract(token) ==
    IF getTokenAddress(token) = ZeroAddress
    THEN [kind |-> "null", address |-> ZeroAddress]
    ELSE IF supportsPermit(token)
         THEN [kind |-> "ERC20Permit", address |-> getTokenAddress(token)]
         ELSE [kind |-> "ERC20", address |-> getTokenAddress(token)]

\* RaftConfig.getPositionManagerAddress(underlyingCollateralToken, collateralToken)
getPositionManagerAddress(u, token) ==
    CASE token = u -> "POSITION_MANAGER_ADDRESS"
      [] token = "stETH" /\ u = "wstETH" -> "POSITION_MANAGER_STETH_ADDRESS"
      [] token = "rETH" /\ u = "wcrETH" -> "POSITION_MANAGER_RETH"
      [] OTHER -> "NO_POSITION_MANAGER"

rSavingsModule == "R_SAVINGS_MODULE"

----------------------------------------------------------------------------
(* Permit signatures *)

PERMIT_DEADLINE_SHIFT == 1800

\* a sentinel that is not all zero: the recovery id of a real signature left in v
createNonZeroPermitSignature ==
    [token |-> ZeroAddress, value |-> 0, deadline |-> 0, v |-> 27, r |-> 0, s |-> 0]

createEmptyPermitSignature ==
    [token |-> ZeroAddress, value |-> 0, deadline |-> 0, v |-> 0, r |-> 0, s |-> 0]

EMPTY_PERMIT_SIGNATURE == createEmptyPermitSignature

\* the shift applied to the clock reading itself: the division by 1000 left out
permitDeadlineInMilliseconds(now) == now + PERMIT_DEADLINE_SHIFT

\* Math.floor(Date.now() / 1000) + PERMIT_DEADLINE_SHIFT, now being Date.now() in milliseconds
permitDeadline(now) == (now \div 1000) + PERMIT_DEADLINE_SHIFT

\* networkIds[network]
networkIds(network) == IF network = "mainnet" THEN 1 ELSE 5

\* the domain and the values createPermitSignature hands to signer.signTypedData
permitTypedData(signerAddress, nonce, now, amt, spenderAddress, tokenContract, network) ==
    [domain |-> [name |-> tokenContract.name,
                 chainId |-> networkIds(network),
                 version |-> "1",
                 verifyingContract |-> tokenContract.address],
     values |-> [owner |-> signerAddress,
                 spender |-> spenderAddress,
                 value |-> amt,
                 nonce |-> nonce,
                 deadline |-> permitDeadline(now)]]

\* the signature the action of a permit step resolves to; amounts are the integers
\* amount.toBigInt(Decimal.PRECISION) yields
createPermitSignature(now, amt, spenderAddress, tokenContract) ==
    [token |-> tokenContract.address, value |-> amt,
     deadline |-> permitDeadline(now), v |-> 27, r |-> 1, s |-> 1]

----------------------------------------------------------------------------
(* Steps.  The action of a step is recorded as the call it would make.    *)

NoToken == ""

\* UserPosition.getWhitelistStep: the step it yields
getWhitelistStep(delegatorAddress, stepNumber, numberOfSteps) ==
    [type |-> [name |-> "whitelist", token |-> NoToken],
     stepNumber |-> stepNumber,
     numberOfSteps |-> numberOfSteps,
     action |-> [call |-> "whitelistDelegate", target |-> "positionManager",
                 args |-> [delegate |-> delegatorAddress, whitelisted |-> TRUE]]]

\* the step number taken with ++stepCounter instead of stepCounter++
getApproveTokenStepPreIncrement(token, tokenContract, approveAmount, spenderAddress, stepNumber, numberOfSteps) ==
    [type |-> [name |-> "approve", token |-> token],
     stepNumber |-> stepNumber + 1,
     numberOfSteps |-> numberOfSteps,
     action |-> [call |-> "approve", target |-> tokenContract.address,
                 args |-> [spender |-> spenderAddress, amount |-> approveAmount]]]

\* UserPosition.getApproveTokenStep: the step it yields
getApproveTokenStep(token, tokenContract, approveAmount, spenderAddress, stepNumber, numberOfSteps) ==
    [type |-> [name |-> "approve", token |-> token],
     stepNumber |-> stepNumber,
     numberOfSteps |-> numberOfSteps,
     action |-> [call |-> "approve", target |-> tokenContract.address,
                 args |-> [spender |-> spenderAddress, amount |-> approveAmount]]]

\* UserPosition.getSignTokenPermitStep: the step it yields when no cached signature exists
getSignTokenPermitStep(token, tokenContract, approveAmount, spenderAddress, stepNumber, numberOfSteps) ==
    [type |-> [name |-> "permit", token |-> token],
     stepNumber |-> stepNumber,
     numberOfSteps |-> numberOfSteps,
     action |-> [call |-> "createPermitSignature", target |-> tokenContract.address,
                 args |-> [spender |-> spenderAddress, amount |-> approveAmount]]]

\* the error getSignTokenPermitStep throws when it is resumed without a signature
PermitSignatureRequired(token) == <<token, " permit signature is required">>
BothZeroError == <<"Collateral and debt change cannot be both zero">>
UnsupportedRouteError(u, token) ==
    <<"Underlying collateral token ", u, " does not support collateral token ", token>>
NoError == <<>>

\* the check of the injected value left out: a missing signature becomes the empty one
signTokenPermitResultUnchecked(token, v) ==
    IF v = undefined
    THEN [thrown |-> FALSE, error |-> NoError, signature |-> createEmptyPermitSignature]
    ELSE [thrown |-> FALSE, error |-> NoError, signature |-> Get(v)]

(* getSignTokenPermitStep after its yield: `if (!signature) throw ...; return signature`. *)
(* v is the value the consumer passed to next().                                         *)
signTokenPermitResult(token, v) ==
    IF v = undefined
    THEN [thrown |-> TRUE, error |-> PermitSignatureRequired(token), signature |-> createEmptyPermitSignature]
    ELSE [thrown |-> FALSE, error |-> NoError, signature |-> Get(v)]

(* getApproveOrPermitStep up to its first suspension.  It either yields a permit step, *)
(* yields an approve step, or (cached signature, permit usable) returns the cached     *)
(* signature without yielding.  getStepNumber() is `stepCounter++`, evaluated only     *)
(* when a step object is built.                                                        *)
getApproveOrPermitStep(token, tokenContract, approveAmount, spenderAddress, counter, numberOfSteps, canUsePermit, cachedPermitSignature) ==
    IF canUsePermit
    THEN IF cachedPermitSignature # undefined
         THEN [kind |-> "return", signature |-> Get(cachedPermitSignature), counter |-> counter]
         ELSE [kind |-> "permit", counter |-> counter + 1,
               step |-> getSignTokenPermitStep(token, tokenContract, approveAmount, spenderAddress,
                                               counter, numberOfSteps)]
    ELSE [kind |-> "approve", counter |-> counter + 1,
          step |-> getApproveTokenStep(token, tokenContract, approveAmount, spenderAddress,
                                       counter, numberOfSteps)]

----------------------------------------------------------------------------
(* UserPosition.getManageSteps: the planning part, lines 345-425 *)

\* the route forgotten: a delegate that is not whitelisted always needs the step
whitelistingStepNeededOnAnyRoute(whitelistingRequired, isDelegateWhitelisted) ==
    ~isDelegateWhitelisted

whitelistingStepNeeded(whitelistingRequired, isDelegateWhitelisted) ==
    whitelistingRequired /\ ~isDelegateWhitelisted

\* a cached signature for less than the amount taken as no signature
collateralApprovalStepNeededByValue(allowanceRequired, change, allowance, canTokenUsePermit, cachedSignature) ==
    /\ allowanceRequired
    /\ change > allowance
    /\ \/ ~canTokenUsePermit
       \/ cachedSignature = undefined
       \/ Get(cachedSignature).value < change

\* gte in place of gt: an allowance equal to the amount is taken as insufficient
collateralApprovalStepNeededGte(allowanceRequired, change, allowance, canTokenUsePermit, cachedSignature) ==
    /\ allowanceRequired
    /\ change >= allowance
    /\ (~canTokenUsePermit \/ cachedSignature = undefined)

collateralApprovalStepNeeded(allowanceRequired, change, allowance, canTokenUsePermit, cachedSignature) ==
    /\ allowanceRequired
    /\ change > allowance
    /\ (~canTokenUsePermit \/ cachedSignature = undefined)

\* the route forgotten: the R allowance is compared on the underlying-token route too
rTokenApprovalStepNeededOnAnyRoute(allowanceRequired, change, allowance, canPermit, cachedSignature) ==
    /\ abs(change) > allowance
    /\ (~canPermit \/ cachedSignature = undefined)

\* gte in place of gt: an R allowance equal to the amount is taken as insufficient
rTokenApprovalStepNeededGte(allowanceRequired, change, allowance, canPermit, cachedSignature) ==
    /\ allowanceRequired
    /\ abs(change) >= allowance
    /\ (~canPermit \/ cachedSignature = undefined)

rTokenApprovalStepNeeded(allowanceRequired, change, allowance, canPermit, cachedSignature) ==
    /\ allowanceRequired
    /\ abs(change) > allowance
    /\ (~canPermit \/ cachedSignature = undefined)

\* the prefetched value overlooked: the allowance is always read from the chain
tokenAllowanceOnChain(prefetched, allowanceRequired, onChain) ==
    IF allowanceRequired THEN onChain ELSE MAX_DECIMAL

\* lines 392-404: a prefetched allowance stands in for the on-chain read
tokenAllowanceOf(prefetched, allowanceRequired, onChain) ==
    IF prefetched = undefined
    THEN (IF allowanceRequired THEN onChain ELSE MAX_DECIMAL)
    ELSE Get(prefetched)

\* lines 384-404: the chain values the body awaits; one that was prefetched, or that the
\* operation does not need, is not read
chainReadsOf(opts, whitelistingRequired, collateralTokenAllowanceRequired, rTokenAllowanceRequired) ==
    {r \in {"isDelegateWhitelisted", "collateralTokenAllowance", "rTokenAllowance"} :
        \/ r = "isDelegateWhitelisted" /\ opts.isDelegateWhitelisted = undefined /\ whitelistingRequired
        \/ r = "collateralTokenAllowance" /\ opts.collateralTokenAllowance = undefined
               /\ collateralTokenAllowanceRequired
        \/ r = "rTokenAllowance" /\ opts.rTokenAllowance = undefined /\ rTokenAllowanceRequired}

\* the required manage step left out of the count
numberOfStepsWithoutManage(w, c, r) ==
    (IF w THEN 1 ELSE 0) + (IF c THEN 1 ELSE 0) + (IF r THEN 1 ELSE 0)

numberOfStepsOf(w, c, r) ==
    (IF w THEN 1 ELSE 0) + (IF c THEN 1 ELSE 0) + (IF r THEN 1 ELSE 0) + 1

\* the guard left out
bothChangesZeroUnchecked(cc, dc) == FALSE

\* only the collateral change looked at: a close is taken for an empty intent
bothChangesZeroOnCollateralAlone(cc, dc) == cc = 0

\* lines 354-357: the condition of the both-zero throw
bothChangesZero(cc, dc) ==
    cc = 0 /\ dc # DEBT_CHANGE_TO_CLOSE /\ dc = 0

\* the reset of line 361 left out: the option is kept for a debt-only change
effectiveCollateralTokenOfOption(u, cc, dc, opts) == Coalesce(opts.collateralToken, u)

\* let { collateralToken = this.underlyingCollateralToken } = options, and the reset of line 361
effectiveCollateralToken(u, cc, dc, opts) ==
    IF cc = 0 /\ dc # DEBT_CHANGE_TO_CLOSE
    THEN u
    ELSE Coalesce(opts.collateralToken, u)

\* the signer type overlooked: permit is offered to contract wallets too
canUsePermitOfAnySigner(eoa, opts) == Coalesce(opts.approvalType, "permit") = "permit"

canUsePermitOf(eoa, opts) == eoa /\ Coalesce(opts.approvalType, "permit") = "permit"

Plan(u, cc, dc, opts, eoa, ch) ==
    LET collateralToken == effectiveCollateralToken(u, cc, dc, opts)
        isCollateralIncrease == cc > 0
        isDebtIncrease == dc > 0
        isUnderlyingToken == thisIsUnderlyingCollateralToken(u, collateralToken)
        whitelistingRequired == ~isUnderlyingToken
        collateralTokenContract == getTokenContract(collateralToken)
        collateralTokenAllowanceRequired == collateralTokenContract.kind # "null" /\ isCollateralIncrease
        rTokenAllowanceRequired == ~isDebtIncrease /\ ~isUnderlyingToken
        positionManagerAddress == getPositionManagerAddress(u, collateralToken)
        isDelegateWhitelisted ==
            IF opts.isDelegateWhitelisted = undefined
            THEN (IF whitelistingRequired THEN ch.isDelegateWhitelisted ELSE FALSE)
            ELSE Get(opts.isDelegateWhitelisted)
        collateralTokenAllowance ==
            tokenAllowanceOf(opts.collateralTokenAllowance, collateralTokenAllowanceRequired,
                             ch.collateralTokenAllowance)
        rTokenAllowance ==
            tokenAllowanceOf(opts.rTokenAllowance, rTokenAllowanceRequired, ch.rTokenAllowance)
        canUsePermit == canUsePermitOf(eoa, opts)
        canCollateralTokenUsePermit == supportsPermit(collateralToken) /\ canUsePermit
        wNeeded == whitelistingStepNeeded(whitelistingRequired, isDelegateWhitelisted)
        cNeeded == collateralApprovalStepNeeded(collateralTokenAllowanceRequired, cc, collateralTokenAllowance,
                                                canCollateralTokenUsePermit, opts.collateralPermitSignature)
        rNeeded == rTokenApprovalStepNeeded(rTokenAllowanceRequired, dc, rTokenAllowance,
                                            canUsePermit, opts.rPermitSignature)
    IN  [collateralToken |-> collateralToken,
         absoluteCollateralChangeValue |-> abs(cc),
         isCollateralIncrease |-> isCollateralIncrease,
         absoluteDebtChangeValue |-> abs(dc),
         isDebtIncrease |-> isDebtIncrease,
         isUnderlyingToken |-> isUnderlyingToken,
         whitelistingRequired |-> whitelistingRequired,
         collateralTokenContract |-> collateralTokenContract,
         collateralTokenAllowanceRequired |-> collateralTokenAllowanceRequired,
         rTokenAllowanceRequired |-> rTokenAllowanceRequired,
         positionManagerAddress |-> positionManagerAddress,
         isDelegateWhitelisted |-> isDelegateWhitelisted,
         collateralTokenAllowance |-> collateralTokenAllowance,
         rTokenAllowance |-> rTokenAllowance,
         chainReads |-> chainReadsOf(opts, whitelistingRequired, collateralTokenAllowanceRequired,
                                     rTokenAllowanceRequired),
         canUsePermit |-> canUsePermit,
         canCollateralTokenUsePermit |-> canCollateralTokenUsePermit,
         whitelistingStepNeeded |-> wNeeded,
         collateralApprovalStepNeeded |-> cNeeded,
         rTokenApprovalStepNeeded |-> rNeeded,
         numberOfSteps |-> numberOfStepsOf(wNeeded, cNeeded, rNeeded)]

----------------------------------------------------------------------------
(* UserPosition.getManageSteps: the yielding part, lines 427-520.  Each stage *)
(* operator runs the body from one point to the next suspension and returns   *)
(* where it stopped, the step it yielded there (out, empty if it threw) and    *)
(* the local variables.                                                        *)

Suspended(at, counter, cps, rps, step) ==
    [pc |-> at, stepCounter |-> counter, collateralPermitSignature |-> cps,
     rPermitSignature |-> rps, out |-> <<step>>, error |-> NoError]

Thrown(err, counter, cps, rps) ==
    [pc |-> "thrown", stepCounter |-> counter, collateralPermitSignature |-> cps,
     rPermitSignature |-> rps, out |-> <<>>, error |-> err]

\* the call of the manage step on the underlying-token route, lines 467-483
managePositionCall(p, cps, rps) ==
    [call |-> "managePosition", target |-> "positionManager",
     args |-> [collateralToken |-> getTokenAddress(p.collateralToken),
               absoluteCollateralChangeValue |-> p.absoluteCollateralChangeValue,
               isCollateralIncrease |-> p.isCollateralIncrease,
               absoluteDebtChangeValue |-> p.absoluteDebtChangeValue,
               isDebtIncrease |-> p.isDebtIncrease,
               permitSignature |-> cps]]

\* the call of the manage step on a delegate route, lines 489-513
manageDelegateCall(p, cps, rps) ==
    [call |-> IF isWrappableCappedCollateralToken(p.collateralToken)
              THEN "managePosition" ELSE "managePositionStETH",
     target |-> p.positionManagerAddress,
     args |-> [collateralToken |-> NoToken,
               absoluteCollateralChangeValue |-> p.absoluteCollateralChangeValue,
               isCollateralIncrease |-> p.isCollateralIncrease,
               absoluteDebtChangeValue |-> p.absoluteDebtChangeValue,
               isDebtIncrease |-> p.isDebtIncrease,
               permitSignature |-> rps]]

manageStep(call, stepNumber, numberOfSteps) ==
    [type |-> [name |-> "manage", token |-> NoToken],
     stepNumber |-> stepNumber,
     numberOfSteps |-> numberOfSteps,
     action |-> call]

\* lines 460-519
manageStage(u, p, counter, cps, rps) ==
    IF isUnderlyingCollateralToken(p.collateralToken)
    THEN Suspended("manage", counter + 1, cps, rps,
                   manageStep(managePositionCall(p, cps, rps), counter, p.numberOfSteps))
    ELSE IF \/ isWrappableCappedCollateralToken(p.collateralToken)
            \/ (p.collateralToken = "stETH" /\ u = "wstETH")
         THEN Suspended("manage", counter + 1, cps, rps,
                        manageStep(manageDelegateCall(p, cps, rps), counter, p.numberOfSteps))
         ELSE Thrown(UnsupportedRouteError(u, p.collateralToken), counter, cps, rps)

\* lines 447-458
rTokenStage(u, dc, opts, p, counter, cps) ==
    IF p.rTokenApprovalStepNeeded
    THEN LET g == getApproveOrPermitStep(R_TOKEN, getTokenContract(R_TOKEN), abs(dc),
                                         p.positionManagerAddress, counter, p.numberOfSteps,
                                         p.canUsePermit, opts.rPermitSignature)
         IN  IF g.kind = "return"
             THEN manageStage(u, p, g.counter, cps, g.signature)
             ELSE Suspended(IF g.kind = "permit" THEN "rPermit" ELSE "rApprove",
                            g.counter, cps, createEmptyPermitSignature, g.step)
    ELSE manageStage(u, p, counter, cps, createEmptyPermitSignature)

\* the two authorization blocks in the wrong order: the R-token block runs where the
\* collateral-token block belongs
collateralStageAfterRToken(u, cc, dc, opts, p, counter) ==
    IF p.rTokenApprovalStepNeeded
    THEN rTokenStage(u, dc, opts, p, counter, createEmptyPermitSignature)
    ELSE IF p.collateralApprovalStepNeeded
         THEN LET g == getApproveOrPermitStep(p.collateralToken, p.collateralTokenContract, cc,
                                              p.positionManagerAddress, counter, p.numberOfSteps,
                                              p.canCollateralTokenUsePermit, opts.collateralPermitSignature)
              IN  IF g.kind = "return"
                  THEN manageStage(u, p, g.counter, g.signature, createEmptyPermitSignature)
                  ELSE Suspended(IF g.kind = "permit" THEN "collateralPermit" ELSE "collateralApprove",
                                 g.counter, createEmptyPermitSignature, createEmptyPermitSignature, g.step)
         ELSE manageStage(u, p, counter, createEmptyPermitSignature, createEmptyPermitSignature)

\* the authorization state read again after the whitelist step: the collateral block works
\* on a plan computed from the chain as it is when the block runs
collateralStageReplanning(u, cc, dc, opts, p, counter) ==
    LET q == Plan(u, cc, dc, opts, isEoa, chain)
    IN  IF q.collateralApprovalStepNeeded
        THEN LET g == getApproveOrPermitStep(q.collateralToken, q.collateralTokenContract, cc,
                                             q.positionManagerAddress, counter, q.numberOfSteps,
                                             q.canCollateralTokenUsePermit, opts.collateralPermitSignature)
             IN  IF g.kind = "return"
                 THEN rTokenStage(u, dc, opts, q, g.counter, g.signature)
                 ELSE Suspended(IF g.kind = "permit" THEN "collateralPermit" ELSE "collateralApprove",
                                g.counter, createEmptyPermitSignature, createEmptyPermitSignature, g.step)
        ELSE rTokenStage(u, dc, opts, q, counter, createEmptyPermitSignature)

\* lines 431-445
collateralStage(u, cc, dc, opts, p, counter) ==
    IF p.collateralApprovalStepNeeded
    THEN LET g == getApproveOrPermitStep(p.collateralToken, p.collateralTokenContract, cc,
                                         p.positionManagerAddress, counter, p.numberOfSteps,
                                         p.canCollateralTokenUsePermit, opts.collateralPermitSignature)
         IN  IF g.kind = "return"
             THEN rTokenStage(u, dc, opts, p, g.counter, g.signature)
             ELSE Suspended(IF g.kind = "permit" THEN "collateralPermit" ELSE "collateralApprove",
                            g.counter, createEmptyPermitSignature, createEmptyPermitSignature, g.step)
    ELSE rTokenStage(u, dc, opts, p, counter, createEmptyPermitSignature)

\* lines 427-429
whitelistStage(u, cc, dc, opts, p, counter) ==
    IF p.whitelistingStepNeeded
    THEN Suspended("whitelist", counter + 1, createEmptyPermitSignature, createEmptyPermitSignature,
                   getWhitelistStep(p.positionManagerAddress, counter, p.numberOfSteps))
    ELSE collateralStage(u, cc, dc, opts, p, counter)

----------------------------------------------------------------------------
(* UserSavings.getManageSavingsSteps *)

SavingsPermitSignatureRequired == <<"R token permit signature is required">>

\* UserSavings.getSignTokenPermitStep after its yield
savingsSignTokenPermitResult(v) ==
    IF v = undefined
    THEN [thrown |-> TRUE, error |-> SavingsPermitSignatureRequired, signature |-> EMPTY_PERMIT_SIGNATURE]
    ELSE [thrown |-> FALSE, error |-> NoError, signature |-> Get(v)]

\* getPermitOrApproveTokenStep / UserSavings.getApproveOrPermitStep up to its first suspension
getPermitOrApproveTokenStep(token, tokenContract, approveAmount, spenderAddress, stepNumber, numberOfSteps, canUsePermit, cachedPermitSignature) ==
    IF canUsePermit
    THEN IF cachedPermitSignature # undefined
         THEN [kind |-> "return", signature |-> Get(cachedPermitSignature)]
         ELSE [kind |-> "permit",
               step |-> getSignTokenPermitStep(token, tokenContract, approveAmount, spenderAddress,
                                               stepNumber, numberOfSteps)]
    ELSE [kind |-> "approve",
          step |-> getApproveTokenStep(token, tokenContract, approveAmount, spenderAddress,
                                       stepNumber, numberOfSteps)]

\* the direction forgotten: the absolute amount is compared with the allowance
savingsApprovalStepNeededOnAbsoluteAmount(allowanceRequired, amt, allowance, canPermit, cachedSignature) ==
    /\ abs(amt) > allowance
    /\ (~canPermit \/ cachedSignature = undefined)

savingsApprovalStepNeeded(allowanceRequired, amt, allowance, canPermit, cachedSignature) ==
    /\ allowanceRequired
    /\ amt > allowance
    /\ (~canPermit \/ cachedSignature = undefined)

\* lines 81-108
SavingsPlan(amt, opts, eoa, ch) ==
    LET isSavingsIncrease == amt > 0
        rTokenAllowanceRequired == isSavingsIncrease
        canUsePermit == canUsePermitOf(eoa, opts)
        rTokenAllowance ==
            IF opts.rTokenAllowance = undefined
            THEN (IF rTokenAllowanceRequired THEN ch.rTokenAllowance ELSE MAX_DECIMAL)
            ELSE Get(opts.rTokenAllowance)
        rNeeded == savingsApprovalStepNeeded(rTokenAllowanceRequired, amt, rTokenAllowance,
                                             canUsePermit, opts.rPermitSignature)
    IN  [isSavingsIncrease |-> isSavingsIncrease,
         rTokenAllowanceRequired |-> rTokenAllowanceRequired,
         canUsePermit |-> canUsePermit,
         rTokenAllowance |-> rTokenAllowance,
         chainReads |-> chainReadsOf(opts, FALSE, FALSE, rTokenAllowanceRequired),
         rTokenApprovalStepNeeded |-> rNeeded,
         numberOfSteps |-> (IF rNeeded THEN 1 ELSE 0) + 1]

\* the entry point chosen by the signature at hand instead of by canUsePermit
manageSavingsCallBySignature(amt, p, rps) ==
    IF p.isSavingsIncrease
    THEN IF rps # EMPTY_PERMIT_SIGNATURE
         THEN [call |-> "depositWithPermit", target |-> rSavingsModule,
               args |-> [amount |-> abs(amt), permitSignature |-> rps]]
         ELSE [call |-> "deposit", target |-> rSavingsModule,
               args |-> [amount |-> abs(amt), permitSignature |-> EMPTY_PERMIT_SIGNATURE]]
    ELSE [call |-> "withdraw", target |-> rSavingsModule,
          args |-> [amount |-> abs(amt), permitSignature |-> EMPTY_PERMIT_SIGNATURE]]

\* lines 125-155: the transaction the manageSavings step sends
manageSavingsCall(amt, p, rps) ==
    IF p.isSavingsIncrease
    THEN IF p.canUsePermit
         THEN [call |-> "depositWithPermit", target |-> rSavingsModule,
               args |-> [amount |-> abs(amt), permitSignature |-> rps]]
         ELSE [call |-> "deposit", target |-> rSavingsModule,
               args |-> [amount |-> abs(amt), permitSignature |-> EMPTY_PERMIT_SIGNATURE]]
    ELSE [call |-> "withdraw", target |-> rSavingsModule,
          args |-> [amount |-> abs(amt), permitSignature |-> EMPTY_PERMIT_SIGNATURE]]

\* lines 157-167
manageSavingsStage(amt, p, counter, rps) ==
    Suspended("manageSavings", counter + 1, EMPTY_PERMIT_SIGNATURE, rps,
              [type |-> [name |-> "manageSavings", token |-> NoToken],
               stepNumber |-> counter,
               numberOfSteps |-> p.numberOfSteps,
               action |-> manageSavingsCall(amt, p, rps)])

\* lines 110-123: `stepCounter++` is evaluated when the helper is called
savingsApprovalStage(amt, opts, p, counter) ==
    IF p.rTokenApprovalStepNeeded
    THEN LET g == getPermitOrApproveTokenStep(R_TOKEN, getTokenContract(R_TOKEN), amt, rSavingsModule,
                                              counter, p.numberOfSteps, p.canUsePermit,
                                              opts.rPermitSignature)
         IN  IF g.kind = "return"
             THEN manageSavingsStage(amt, p, counter + 1, g.signature)
             ELSE Suspended(IF g.kind = "permit" THEN "rPermit" ELSE "rApprove",
                            counter + 1, EMPTY_PERMIT_SIGNATURE, EMPTY_PERMIT_SIGNATURE, g.step)
    ELSE manageSavingsStage(amt, p, counter, EMPTY_PERMIT_SIGNATURE)

----------------------------------------------------------------------------
(* The inputs explored *)

CollateralChanges == {-1, 0, 1, MaxAmount}
DebtChanges == {DEBT_CHANGE_TO_CLOSE, -MaxAmount, -1, 0, 1}
SavingsAmounts == {-1, 0, 1, MaxAmount}
\* what the chain may hold, and what a caller may pass as a prefetched allowance
ChainAllowances == {0, MaxAmount}
PrefetchedAllowances == {1}
\* what a caller of the savings sequencer may pass: also an allowance of zero
SavingsPrefetchedAllowances == {0, 1}
\* readings of Date.now(), in milliseconds
Times == {t * 1000 : t \in 1..MaxTime}

Optional(S) == {undefined} \cup {Some(x) : x \in S}

\* a permit signature the caller obtained earlier, for the value 1
CachedSignature(token) ==
    [token |-> getTokenAddress(token), value |-> 1, deadline |-> PERMIT_DEADLINE_SHIFT,
     v |-> 28, r |-> 2, s |-> 2]

\* a signature that no step of the sequence produced
StraySignature ==
    [token |-> "0xdead", value |-> 1, deadline |-> 1, v |-> 28, r |-> 3, s |-> 3]

NoPlan == [numberOfSteps |-> 0]

PositionOptions(u) ==
    [collateralToken : Optional(COLLATERAL_TOKENS \ {u}),
     approvalType : Optional({"approve"}),
     isDelegateWhitelisted : Optional(BOOLEAN),
     collateralTokenAllowance : Optional(PrefetchedAllowances),
     collateralPermitSignature : Optional({CachedSignature(u)}),
     rTokenAllowance : Optional(PrefetchedAllowances),
     rPermitSignature : Optional({CachedSignature(R_TOKEN)})]

SavingsOptions ==
    [collateralToken : {undefined},
     approvalType : Optional({"permit", "approve"}),
     isDelegateWhitelisted : {undefined},
     collateralTokenAllowance : {undefined},
     collateralPermitSignature : {undefined},
     rTokenAllowance : Optional(SavingsPrefetchedAllowances),
     rPermitSignature : Optional({CachedSignature(R_TOKEN)})]

ChainStates ==
    [isDelegateWhitelisted : BOOLEAN,
     collateralTokenAllowance : ChainAllowances,
     rTokenAllowance : ChainAllowances]

GeneratorCreated ==
    /\ pc = "start"
    /\ plan = NoPlan
    /\ stepCounter = 1
    /\ collateralPermitSignature = createEmptyPermitSignature
    /\ rPermitSignature = createEmptyPermitSignature
    /\ yielded = <<>>
    /\ permitResumes = <<>>
    /\ error = NoError

InitPosition ==
    /\ method = "getManageSteps"
    /\ underlyingCollateralToken \in UNDERLYING_COLLATERAL_TOKENS
    /\ collateralChange \in CollateralChanges
    /\ debtChange \in DebtChanges
    /\ amount = 0
    /\ options \in PositionOptions(underlyingCollateralToken)
    /\ isEoa \in BOOLEAN
    /\ chain \in ChainStates
    /\ GeneratorCreated

InitSavings ==
    /\ method = "getManageSavingsSteps"
    /\ underlyingCollateralToken = "wstETH"
    /\ collateralChange = 0
    /\ debtChange = 0
    /\ amount \in SavingsAmounts
    /\ options \in SavingsOptions
    /\ isEoa \in BOOLEAN
    /\ chain \in [isDelegateWhitelisted : {FALSE}, collateralTokenAllowance : {0},
                  rTokenAllowance : ChainAllowances]
    /\ GeneratorCreated

\* the sequence is consumed step by step by the caller, not by manage
NoDriver ==
    /\ driverPc = "none"
    /\ driverPermitSignature = undefined
    /\ driverError = NoError
    /\ log = <<>>

\* no public operation of UserPosition is involved
NoCall == [name |-> "none", args |-> <<>>, pc |-> "none", error |-> NoError]
NotWrapped == invocation = NoCall

Init == (InitPosition \/ InitSavings) /\ NoDriver /\ NotWrapped

----------------------------------------------------------------------------
(* The consumer calls next(v) *)

Inputs == <<method, underlyingCollateralToken, collateralChange, debtChange, amount, options, isEoa, chain, invocation>>

Continue(o) ==
    /\ pc' = o.pc
    /\ stepCounter' = o.stepCounter
    /\ collateralPermitSignature' = o.collateralPermitSignature
    /\ rPermitSignature' = o.rPermitSignature
    /\ yielded' = yielded \o o.out
    /\ error' = o.error

\* the values a consumer may pass to next() after the step `step`
ResumeValues(step) ==
    {undefined, Some(StraySignature)} \cup
    (IF step.type.name = "permit"
     THEN {Some(createPermitSignature(now, step.action.args.amount, step.action.args.spender,
                                      [address |-> step.action.target])) : now \in Times}
     ELSE {})

LastStep == yielded[Len(yielded)]

\* first next(): lines 345-429 and on to the first suspension
Start ==
    /\ method = "getManageSteps"
    /\ pc = "start"
    /\ IF bothChangesZero(collateralChange, debtChange)
       THEN /\ plan' = plan
            /\ Continue(Thrown(BothZeroError, stepCounter, collateralPermitSignature, rPermitSignature))
       ELSE LET p == Plan(underlyingCollateralToken, collateralChange, debtChange, options, isEoa, chain)
            IN  /\ plan' = p
                /\ Continue(whitelistStage(underlyingCollateralToken, collateralChange, debtChange,
                                           options, p, stepCounter))
    /\ UNCHANGED <<driverVars, Inputs, permitResumes>>

ResumeWhitelist ==
    /\ yielded # <<>>
    /\ \E v \in ResumeValues(LastStep) :
           /\ method = "getManageSteps"
           /\ pc = "whitelist"
           /\ Continue(collateralStage(underlyingCollateralToken, collateralChange, debtChange,
                                       options, plan, stepCounter))
           /\ UNCHANGED <<driverVars, Inputs, plan, permitResumes>>

\* the value of next() taken as the signature also after an approve step
ResumeCollateralApproveTakingValue ==
    /\ yielded # <<>>
    /\ \E v \in ResumeValues(LastStep) :
           /\ method = "getManageSteps"
           /\ pc = "collateralApprove"
           /\ Continue(rTokenStage(underlyingCollateralToken, debtChange, options, plan, stepCounter,
                                   Coalesce(v, createEmptyPermitSignature)))
           /\ UNCHANGED <<driverVars, Inputs, plan, permitResumes>>

ResumeCollateralApprove ==
    /\ yielded # <<>>
    /\ \E v \in ResumeValues(LastStep) :
           /\ method = "getManageSteps"
           /\ pc = "collateralApprove"
           /\ Continue(rTokenStage(underlyingCollateralToken, debtChange, options, plan, stepCounter,
                                   createEmptyPermitSignature))
           /\ UNCHANGED <<driverVars, Inputs, plan, permitResumes>>

ResumeCollateralPermit ==
    /\ yielded # <<>>
    /\ \E v \in ResumeValues(LastStep) :
           /\ method = "getManageSteps"
           /\ pc = "collateralPermit"
           /\ LET res == signTokenPermitResult(plan.collateralToken, v)
              IN  IF res.thrown
                  THEN Continue(Thrown(res.error, stepCounter, collateralPermitSignature, rPermitSignature))
                  ELSE Continue(rTokenStage(underlyingCollateralToken, debtChange, options, plan, stepCounter,
                                            res.signature))
           /\ permitResumes' = Append(permitResumes, [token |-> plan.collateralToken, value |-> v])
           /\ UNCHANGED <<driverVars, Inputs, plan>>

ResumeRApprove ==
    /\ yielded # <<>>
    /\ \E v \in ResumeValues(LastStep) :
           /\ method = "getManageSteps"
           /\ pc = "rApprove"
           /\ Continue(manageStage(underlyingCollateralToken, plan, stepCounter, collateralPermitSignature,
                                   createEmptyPermitSignature))
           /\ UNCHANGED <<driverVars, Inputs, plan, permitResumes>>

ResumeRPermit ==
    /\ yielded # <<>>
    /\ \E v \in ResumeValues(LastStep) :
           /\ method = "getManageSteps"
           /\ pc = "rPermit"
           /\ LET res == signTokenPermitResult(R_TOKEN, v)
              IN  IF res.thrown
                  THEN Continue(Thrown(res.error, stepCounter, collateralPermitSignature, rPermitSignature))
                  ELSE Continue(manageStage(underlyingCollateralToken, plan, stepCounter,
                                            collateralPermitSignature, res.signature))
           /\ permitResumes' = Append(permitResumes, [token |-> R_TOKEN, value |-> v])
           /\ UNCHANGED <<driverVars, Inputs, plan>>

\* the resume after the manage step: the body ends
ResumeManage ==
    /\ yielded # <<>>
    /\ \E v \in ResumeValues(LastStep) :
           /\ method = "getManageSteps"
           /\ pc = "manage"
           /\ pc' = "done"
           /\ UNCHANGED <<driverVars, Inputs, plan, stepCounter, collateralPermitSignature, rPermitSignature,
                          yielded, permitResumes, error>>

SavingsStart ==
    /\ method = "getManageSavingsSteps"
    /\ pc = "start"
    /\ LET p == SavingsPlan(amount, options, isEoa, chain)
       IN  /\ plan' = p
           /\ Continue(savingsApprovalStage(amount, options, p, stepCounter))
    /\ UNCHANGED <<driverVars, Inputs, permitResumes>>

SavingsResumeApprove ==
    /\ yielded # <<>>
    /\ \E v \in ResumeValues(LastStep) :
           /\ method = "getManageSavingsSteps"
           /\ pc = "rApprove"
           /\ Continue(manageSavingsStage(amount, plan, stepCounter, EMPTY_PERMIT_SIGNATURE))
           /\ UNCHANGED <<driverVars, Inputs, plan, permitResumes>>

SavingsResumePermit ==
    /\ yielded # <<>>
    /\ \E v \in ResumeValues(LastStep) :
           /\ method = "getManageSavingsSteps"
           /\ pc = "rPermit"
           /\ LET res == savingsSignTokenPermitResult(v)
              IN  IF res.thrown
                  THEN Continue(Thrown(res.error, stepCounter, collateralPermitSignature, rPermitSignature))
                  ELSE Continue(manageSavingsStage(amount, plan, stepCounter, res.signature))
           /\ permitResumes' = Append(permitResumes, [token |-> R_TOKEN, value |-> v])
           /\ UNCHANGED <<driverVars, Inputs, plan>>

SavingsResumeManage ==
    /\ yielded # <<>>
    /\ \E v \in ResumeValues(LastStep) :
           /\ method = "getManageSavingsSteps"
           /\ pc = "manageSavings"
           /\ pc' = "done"
           /\ UNCHANGED <<driverVars, Inputs, plan, stepCounter, collateralPermitSignature, rPermitSignature,
                          yielded, permitResumes, error>>

Next ==
    \/ Start
    \/ ResumeWhitelist
    \/ ResumeCollateralApprove
    \/ ResumeCollateralPermit
    \/ ResumeRApprove
    \/ ResumeRPermit
    \/ ResumeManage
    \/ SavingsStart
    \/ SavingsResumeApprove
    \/ SavingsResumePermit
    \/ SavingsResumeManage

Spec == Init /\ [][Next]_vars

----------------------------------------------------------------------------
(* UserPosition.manage, lines 266-313: the driver that consumes the sequence *)
(* of getManageSteps.  An action of the specification is one stretch of the  *)
(* async function between two awaits.                                        *)

\* one call of steps.next(v): where the body of getManageSteps stops next
nextOutcome(v) ==
    CASE pc = "start" ->
             IF bothChangesZero(collateralChange, debtChange)
             THEN Thrown(BothZeroError, stepCounter, collateralPermitSignature, rPermitSignature)
             ELSE whitelistStage(underlyingCollateralToken, collateralChange, debtChange, options,
                                 Plan(underlyingCollateralToken, collateralChange, debtChange,
                                      options, isEoa, chain),
                                 stepCounter)
      [] pc = "whitelist" ->
             collateralStage(underlyingCollateralToken, collateralChange, debtChange, options, plan,
                             stepCounter)
      [] pc = "collateralApprove" ->
             rTokenStage(underlyingCollateralToken, debtChange, options, plan, stepCounter,
                         createEmptyPermitSignature)
      [] pc = "collateralPermit" ->
             LET res == signTokenPermitResult(plan.collateralToken, v)
             IN  IF res.thrown
                 THEN Thrown(res.error, stepCounter, collateralPermitSignature, rPermitSignature)
                 ELSE rTokenStage(underlyingCollateralToken, debtChange, options, plan, stepCounter,
                                  res.signature)
      [] pc = "rApprove" ->
             manageStage(underlyingCollateralToken, plan, stepCounter, collateralPermitSignature,
                         createEmptyPermitSignature)
      [] pc = "rPermit" ->
             LET res == signTokenPermitResult(R_TOKEN, v)
             IN  IF res.thrown
                 THEN Thrown(res.error, stepCounter, collateralPermitSignature, rPermitSignature)
                 ELSE manageStage(underlyingCollateralToken, plan, stepCounter,
                                  collateralPermitSignature, res.signature)
      [] pc = "manage" ->
             [pc |-> "done", stepCounter |-> stepCounter,
              collateralPermitSignature |-> collateralPermitSignature,
              rPermitSignature |-> rPermitSignature, out |-> <<>>, error |-> NoError]

\* steps.next(v) as manage calls it: the generator's variables after the call
stepsNext(v) ==
    /\ Continue(nextOutcome(v))
    /\ plan' = IF pc = "start" /\ ~bothChangesZero(collateralChange, debtChange)
               THEN Plan(underlyingCollateralToken, collateralChange, debtChange, options, isEoa, chain)
               ELSE plan
    /\ permitResumes' =
           IF pc = "collateralPermit"
           THEN Append(permitResumes, [token |-> plan.collateralToken, value |-> v])
           ELSE IF pc = "rPermit"
                THEN Append(permitResumes, [token |-> R_TOKEN, value |-> v])
                ELSE permitResumes

\* an entry of the history of manage
Event(event, stepNumber, value) == [event |-> event, step |-> stepNumber, value |-> value]

\* the case 'manage' left out of the switch: the manage step falls to the default branch
startCallbacksWithoutManageCase(step) ==
    CASE step.type.name = "whitelist" -> <<Event("onDelegateWhitelistingStart", step.stepNumber, undefined)>>
      [] OTHER -> <<Event("onApprovalStart", step.stepNumber, undefined)>>

\* lines 280-290: the start callback of a step, none for the manage step
startCallbacks(step) ==
    CASE step.type.name = "whitelist" -> <<Event("onDelegateWhitelistingStart", step.stepNumber, undefined)>>
      [] step.type.name = "manage" -> <<>>
      [] OTHER -> <<Event("onApprovalStart", step.stepNumber, undefined)>>

\* lines 298-309: the end callback after a confirmed transaction, called without argument
endCallbacks(step) ==
    CASE step.type.name = "whitelist" -> <<Event("onDelegateWhitelistingEnd", step.stepNumber, undefined)>>
      [] step.type.name = "manage" -> <<>>
      [] OTHER -> <<Event("onApprovalEnd", step.stepNumber, undefined)>>

ActionRejected == <<"action rejected">>
ConfirmationFailed == <<"transaction confirmation failed">>

\* what a confirmed transaction of a step leaves in the chain state
confirmedChain(ch, step) ==
    CASE step.type.name = "whitelist" -> [ch EXCEPT !.isDelegateWhitelisted = TRUE]
      [] step.type.name = "approve" /\ step.type.token = R_TOKEN ->
             [ch EXCEPT !.rTokenAllowance = step.action.args.amount]
      [] step.type.name = "approve" /\ step.type.token # R_TOKEN ->
             [ch EXCEPT !.collateralTokenAllowance = step.action.args.amount]
      [] OTHER -> ch

\* manage passes otherOptions: ManagePositionOptions has no prefetched value and no cached signature
ManageOptions(u) ==
    [collateralToken : Optional(COLLATERAL_TOKENS \ {u}),
     approvalType : Optional({"approve"}),
     isDelegateWhitelisted : {undefined},
     collateralTokenAllowance : {undefined},
     collateralPermitSignature : {undefined},
     rTokenAllowance : {undefined},
     rPermitSignature : {undefined}]

\* manage(collateralChange, debtChange, options) was called: lines 271-275
DriverInit ==
    /\ method = "getManageSteps"
    /\ underlyingCollateralToken \in UNDERLYING_COLLATERAL_TOKENS
    /\ collateralChange \in CollateralChanges
    /\ debtChange \in DebtChanges
    /\ amount = 0
    /\ options \in ManageOptions(underlyingCollateralToken)
    /\ isEoa \in BOOLEAN
    /\ chain \in ChainStates
    /\ GeneratorCreated
    /\ driverPc = "called"
    /\ driverPermitSignature = undefined
    /\ driverError = NoError
    /\ log = <<>>
    /\ NotWrapped

Static == <<method, underlyingCollateralToken, collateralChange, debtChange, amount, options, isEoa, invocation>>

\* lines 277-292: steps.next(...) is awaited; if it yields a step, the start callback is
\* called and the action of the step is invoked
ManageRequestStep ==
    /\ driverPc \in {"called", "resume"}
    /\ LET v == IF driverPc = "called" THEN undefined ELSE driverPermitSignature
           o == nextOutcome(v)
           requested == <<Event("next", Len(yielded) + 1, v)>>
       IN  /\ stepsNext(v)
           /\ IF o.pc = "thrown"
              THEN /\ driverPc' = "rejected"
                   /\ driverError' = o.error
                   /\ log' = log \o requested
              ELSE IF o.pc = "done"
                   THEN /\ driverPc' = "returned"
                        /\ driverError' = driverError
                        /\ log' = log \o requested
                   ELSE /\ driverPc' = "action"
                        /\ driverError' = driverError
                        /\ log' = log \o requested \o startCallbacks(o.out[1])
                                      \o <<Event("action", o.out[1].stepNumber, undefined)>>
    /\ UNCHANGED <<Static, chain, driverPermitSignature>>

\* lines 292, 310-312: the action of a permit step resolves to a signature
PermitActionResolves ==
    /\ driverPc = "action"
    /\ LastStep.type.name = "permit"
    /\ \E now \in Times :
           LET result == createPermitSignature(now, LastStep.action.args.amount,
                                               LastStep.action.args.spender,
                                               [address |-> LastStep.action.target])
           IN  /\ driverPermitSignature' = Some(result)
               /\ log' = Append(log, Event("resolved", LastStep.stepNumber, Some(result)))
    /\ driverPc' = "resume"
    /\ UNCHANGED <<Static, chain, pc, plan, stepCounter, collateralPermitSignature, rPermitSignature,
                   yielded, permitResumes, error, driverError>>

\* as TransactionActionResolves, the confirmation of the transaction not awaited
TransactionActionResolvesUnawaited ==
    /\ driverPc = "action"
    /\ LastStep.type.name # "permit"
    /\ driverPc' = "resume"
    /\ log' = Append(log, Event("resolved", LastStep.stepNumber, undefined))
    /\ UNCHANGED <<Static, chain, pc, plan, stepCounter, collateralPermitSignature, rPermitSignature,
                   yielded, permitResumes, error, driverPermitSignature, driverError>>

\* lines 292-295: the action of any other step resolves to a TransactionResponse, whose
\* wait() is awaited
TransactionActionResolves ==
    /\ driverPc = "action"
    /\ LastStep.type.name # "permit"
    /\ driverPc' = "wait"
    /\ log' = Append(log, Event("resolved", LastStep.stepNumber, undefined))
    /\ UNCHANGED <<Static, chain, pc, plan, stepCounter, collateralPermitSignature, rPermitSignature,
                   yielded, permitResumes, error, driverPermitSignature, driverError>>

\* as ActionRejects, the error swallowed and the loop continued
ActionRejectsSwallowed ==
    /\ driverPc = "action"
    /\ driverPc' = "resume"
    /\ log' = Append(log, Event("rejected", LastStep.stepNumber, undefined))
    /\ UNCHANGED <<Static, chain, pc, plan, stepCounter, collateralPermitSignature, rPermitSignature,
                   yielded, permitResumes, error, driverPermitSignature, driverError>>

\* line 292: the action rejects; nothing catches the error
ActionRejects ==
    /\ driverPc = "action"
    /\ driverPc' = "rejected"
    /\ driverError' = ActionRejected
    /\ log' = Append(log, Event("rejected", LastStep.stepNumber, undefined))
    /\ UNCHANGED <<Static, chain, pc, plan, stepCounter, collateralPermitSignature, rPermitSignature,
                   yielded, permitResumes, error, driverPermitSignature>>

\* as WaitResolves, the signature of an earlier permit step kept
WaitResolvesKeepingSignature ==
    /\ driverPc = "wait"
    /\ chain' = confirmedChain(chain, LastStep)
    /\ log' = Append(log, Event("confirmed", LastStep.stepNumber, undefined)) \o endCallbacks(LastStep)
    /\ driverPc' = "resume"
    /\ UNCHANGED <<Static, pc, plan, stepCounter, collateralPermitSignature, rPermitSignature,
                   yielded, permitResumes, error, driverPermitSignature, driverError>>

\* as WaitResolves, manage returning as soon as a transaction is confirmed
WaitResolvesThenReturns ==
    /\ driverPc = "wait"
    /\ chain' = confirmedChain(chain, LastStep)
    /\ driverPermitSignature' = undefined
    /\ log' = Append(log, Event("confirmed", LastStep.stepNumber, undefined)) \o endCallbacks(LastStep)
    /\ driverPc' = "returned"
    /\ UNCHANGED <<Static, pc, plan, stepCounter, collateralPermitSignature, rPermitSignature,
                   yielded, permitResumes, error, driverError>>

\* lines 295-309: the transaction is confirmed, the signature is cleared, the end callback called
WaitResolves ==
    /\ driverPc = "wait"
    /\ chain' = confirmedChain(chain, LastStep)
    /\ driverPermitSignature' = undefined
    /\ log' = Append(log, Event("confirmed", LastStep.stepNumber, undefined)) \o endCallbacks(LastStep)
    /\ driverPc' = "resume"
    /\ UNCHANGED <<Static, pc, plan, stepCounter, collateralPermitSignature, rPermitSignature,
                   yielded, permitResumes, error, driverError>>

\* line 295: the confirmation fails; nothing catches the error
WaitFails ==
    /\ driverPc = "wait"
    /\ driverPc' = "rejected"
    /\ driverError' = ConfirmationFailed
    /\ log' = Append(log, Event("failed", LastStep.stepNumber, undefined))
    /\ UNCHANGED <<Static, chain, pc, plan, stepCounter, collateralPermitSignature, rPermitSignature,
                   yielded, permitResumes, error, driverPermitSignature>>

DriverNext ==
    \/ ManageRequestStep
    \/ PermitActionResolves
    \/ TransactionActionResolves
    \/ ActionRejects
    \/ WaitResolves
    \/ WaitFails

DriverSpec == DriverInit /\ [][DriverNext]_vars

\* manage is an async function: once the promise it awaits has settled, the
\* run-to-completion scheduling of promise reactions resumes it, and steps.next settles by
\* itself, the body of the generator awaiting only reads of the provider.  An action or a
\* confirmation that is awaited settles in the end: it resolves unless it fails.
FairDriverSpec ==
    /\ DriverInit
    /\ [][DriverNext]_vars
    /\ WF_vars(ManageRequestStep)
    /\ WF_vars(PermitActionResolves)
    /\ WF_vars(TransactionActionResolves)
    /\ WF_vars(WaitResolves)

----------------------------------------------------------------------------
(* The public operations of UserPosition, lines 872-1029: open, close,       *)
(* addCollateral, withdrawCollateral, borrow, repayDebt.  Each checks its    *)
(* amounts and calls manage without awaiting it.                             *)

\* lt in place of lte: a zero amount passes the guard
amountRejectedOnNegative(a) == a < 0

\* amount.lte(Decimal.ZERO)
amountRejected(a) == a <= 0

CollateralAmountError == <<"Collateral amount must be greater than 0">>
DebtAmountError == <<"Debt amount must be greater than 0">>
AmountError == <<"Amount must be greater than 0.">>

\* the error the guards of the operation throw, NoError when the arguments pass
guardError(name, args) ==
    CASE name = "open" ->
             IF amountRejected(args[1])
             THEN CollateralAmountError
             ELSE IF amountRejected(args[2]) THEN DebtAmountError ELSE NoError
      [] name = "close" -> NoError
      [] OTHER -> IF amountRejected(args[1]) THEN AmountError ELSE NoError

\* the collateral change and the debt change the operation passes to manage
manageArguments(name, args) ==
    CASE name = "open" -> <<args[1], args[2]>>
      [] name = "close" -> <<0, DEBT_CHANGE_TO_CLOSE>>
      [] name = "addCollateral" -> <<args[1], 0>>
      [] name = "withdrawCollateral" -> <<args[1] * (-1), 0>>
      [] name = "borrow" -> <<0, args[1]>>
      [] name = "repayDebt" -> <<0, args[1] * (-1)>>

WrapperAmounts == {-1, 0, 1, MaxAmount}

Called(name, args) == [name |-> name, args |-> args, pc |-> "called", error |-> NoError]

WrapperCalls ==
    {Called("open", <<c, d>>) : c \in WrapperAmounts, d \in WrapperAmounts}
    \cup {Called("close", <<>>)}
    \cup {Called(name, <<a>>) : name \in {"addCollateral", "withdrawCollateral", "borrow", "repayDebt"},
                                a \in WrapperAmounts}

\* the operation was called; manage and getManageSteps have not been
WrapperInit ==
    /\ invocation \in WrapperCalls
    /\ method = "getManageSteps"
    /\ underlyingCollateralToken \in UNDERLYING_COLLATERAL_TOKENS
    /\ collateralChange = 0
    /\ debtChange = 0
    /\ amount = 0
    /\ options \in ManageOptions(underlyingCollateralToken)
    /\ isEoa \in BOOLEAN
    /\ chain \in ChainStates
    /\ GeneratorCreated
    /\ NoDriver

\* the body of the operation: the guards, then this.manage(...), which is not awaited, so
\* the operation resolves as soon as manage has been called
WrapperCall ==
    /\ invocation.pc = "called"
    /\ IF guardError(invocation.name, invocation.args) # NoError
       THEN /\ invocation' = [invocation EXCEPT !.pc = "rejected",
                                          !.error = guardError(invocation.name, invocation.args)]
            /\ UNCHANGED <<collateralChange, debtChange, driverPc>>
       ELSE /\ invocation' = [invocation EXCEPT !.pc = "resolved"]
            /\ collateralChange' = manageArguments(invocation.name, invocation.args)[1]
            /\ debtChange' = manageArguments(invocation.name, invocation.args)[2]
            /\ driverPc' = "called"
    /\ UNCHANGED <<method, underlyingCollateralToken, amount, options, isEoa, chain, pc, plan,
                   stepCounter, collateralPermitSignature, rPermitSignature, yielded, permitResumes,
                   error, driverPermitSignature, driverError, log>>

WrapperNext ==
    \/ WrapperCall
    \/ ManageRequestStep
    \/ PermitActionResolves
    \/ TransactionActionResolves
    \/ ActionRejects
    \/ WaitResolves
    \/ WaitFails

WrapperSpec == WrapperInit /\ [][WrapperNext]_vars

----------------------------------------------------------------------------
(* createPermitSignature(signer, amount, spenderAddress, tokenContract) on   *)
(* its own: the function the action of a permit step calls.                  *)

SignerAddresses == {"0xa11ce", "0xb0b"}
SpenderAddresses == {"POSITION_MANAGER_ADDRESS", "POSITION_MANAGER_STETH_ADDRESS"}
PermitAmounts == {1, MaxAmount, MAX_DECIMAL}
Nonces == {0, 1}
Networks == {"mainnet", "goerli"}

\* what the token contract answers to getAddress() and name()
PermitTokenContracts ==
    {[kind |-> "ERC20Permit", address |-> getTokenAddress("wstETH"), name |-> "Wrapped liquid staked Ether 2.0"],
     [kind |-> "ERC20Permit", address |-> getTokenAddress("R"), name |-> "R Stablecoin"]}

\* readings of Date.now() around the turn of a second
ClockReadings == {0, 999} \cup {t * 1000 + d : t \in 1..MaxTime, d \in {0, 1, 999}}

PermitCalls ==
    [name : {"createPermitSignature"},
     args : [signer : SignerAddresses, amount : PermitAmounts, spenderAddress : SpenderAddresses,
             tokenContract : PermitTokenContracts],
     env : [network : Networks, nonce : Nonces],
     pc : {"called"},
     error : {NoError}]

PermitInit ==
    /\ invocation \in PermitCalls
    /\ method = "createPermitSignature"
    /\ underlyingCollateralToken = "wstETH"
    /\ collateralChange = 0
    /\ debtChange = 0
    /\ amount = 0
    /\ options \in ManageOptions("wstETH")
    /\ options.collateralToken = undefined
    /\ options.approvalType = undefined
    /\ isEoa = TRUE
    /\ chain \in ChainStates
    /\ GeneratorCreated
    /\ NoDriver

\* the function runs: it reads the signer's address, the nonce, the token's address and
\* name, the clock and the configured network, signs, and resolves to the struct
CreatePermitSignature ==
    /\ invocation.name = "createPermitSignature"
    /\ invocation.pc = "called"
    /\ \E now \in ClockReadings :
           invocation' =
               [name |-> invocation.name, args |-> invocation.args, env |-> invocation.env,
                pc |-> "resolved", error |-> NoError,
                now |-> now,
                signed |-> permitTypedData(invocation.args.signer, invocation.env.nonce, now,
                                           invocation.args.amount, invocation.args.spenderAddress,
                                           invocation.args.tokenContract, invocation.env.network),
                result |-> createPermitSignature(now, invocation.args.amount,
                                                 invocation.args.spenderAddress,
                                                 invocation.args.tokenContract)]
    /\ UNCHANGED <<method, underlyingCollateralToken, collateralChange, debtChange, amount, options,
                   isEoa, chain, pc, plan, stepCounter, collateralPermitSignature, rPermitSignature,
                   yielded, permitResumes, error, driverPc, driverPermitSignature, driverError, log>>

PermitNext == CreatePermitSignature

PermitSpec == PermitInit /\ [][PermitNext]_vars

----------------------------------------------------------------------------
(* Allowance: new Allowance(token, walletAddress, spender, provider) and its *)
(* fetchAllowance(). The class is exported by the package and exercised by   *)
(* tests/allowance.test.ts; it is modelled from the interface                *)
(* getAllowance(token, owner, spender) -> Decimal.                           *)

AllowanceTokens == COLLATERAL_TOKENS \cup {R_TOKEN}
ReportedAllowances == 0..MaxAmount

\* what each token contract's allowance(owner, spender) reports
AllowanceTables == [SignerAddresses \X SpenderAddresses -> ReportedAllowances]

\* the reading with owner and spender taken from the wrong fields
reportedAllowanceOfOtherWallet(table, walletAddress, spender) ==
    table[<<CHOOSE w \in SignerAddresses : w # walletAddress, spender>>]

\* tokenContract.allowance(walletAddress, spender)
reportedAllowance(table, walletAddress, spender) == table[<<walletAddress, spender>>]

\* what fetchAllowance may resolve to: the reading of the token contract; a token
\* without a contract (getTokenContract is null) has no reading, and any outcome is possible
fetchAllowanceOutcomes(tokenContract, table, walletAddress, spender) ==
    IF tokenContract.kind = "null"
    THEN Optional(ReportedAllowances \cup {MAX_DECIMAL})
    ELSE {Some(reportedAllowance(table, walletAddress, spender))}

AllowanceObjects ==
    [name : {"fetchAllowance"},
     args : [token : AllowanceTokens, walletAddress : SignerAddresses, spender : SpenderAddresses],
     env : [allowance : AllowanceTables],
     pc : {"constructed"},
     error : {NoError}]

AllowanceInit ==
    /\ invocation \in AllowanceObjects
    /\ method = "fetchAllowance"
    /\ underlyingCollateralToken = "wstETH"
    /\ collateralChange = 0
    /\ debtChange = 0
    /\ amount = 0
    /\ options \in ManageOptions("wstETH")
    /\ options.collateralToken = undefined
    /\ options.approvalType = undefined
    /\ isEoa = TRUE
    /\ chain \in ChainStates
    /\ chain.isDelegateWhitelisted
    /\ chain.collateralTokenAllowance = 0
    /\ chain.rTokenAllowance = 0
    /\ GeneratorCreated
    /\ NoDriver

\* fetchAllowance(): the contract of the token given at construction is asked for the
\* allowance of the wallet and the spender given at construction
FetchAllowance ==
    /\ invocation.name = "fetchAllowance"
    /\ invocation.pc = "constructed"
    /\ \E result \in fetchAllowanceOutcomes(getTokenContract(invocation.args.token),
                                            invocation.env.allowance,
                                            invocation.args.walletAddress,
                                            invocation.args.spender) :
           invocation' =
               [name |-> invocation.name, args |-> invocation.args, env |-> invocation.env,
                pc |-> "resolved", error |-> NoError, result |-> result]
    /\ UNCHANGED <<method, underlyingCollateralToken, collateralChange, debtChange, amount, options,
                   isEoa, chain, pc, plan, stepCounter, collateralPermitSignature, rPermitSignature,
                   yielded, permitResumes, error, driverPc, driverPermitSignature, driverError, log>>

AllowanceNext == FetchAllowance

AllowanceSpec == AllowanceInit /\ [][AllowanceNext]_vars

----------------------------------------------------------------------------
(* UserPosition.getLeverageSteps: lines 545-817.  The amounts of the swap    *)
(* (debt change, amount to swap, minimum return) are computed from the price *)
(* feed and the 1inch quote and only travel to the leverage call; the steps  *)
(* depend on the values modelled here.                                       *)

oneInchOneStepLeverageStEth == "ONE_INCH_ONE_STEP_LEVERAGE_STETH"

ProviderNotSetError == <<"Provider not set, please set provider before calling this method">>
SlippageError == <<"Slippage should not be greater than the maximum of the swap router">>
\* the rejection of priceFeed.getPrice or getSwapCallDataFrom1inch
QuoteError == <<"price feed or swap quote request failed">>

\* the signer type and the preference consulted, as in getManageSteps
leverageCanUsePermitOfSigner(eoa, opts) == canUsePermitOf(eoa, opts)

\* line 654: `false, // One step leverage doesn't support permit`
leverageCanUsePermit(eoa, opts) == FALSE

\* lines 562-636: what the body computes before its first step
LeveragePlan(u, principalCollateralChange, opts, eoa, ch, inverseRate) ==
    LET collateralToken == Coalesce(opts.collateralToken, u)
        actualPrincipalCollateralChange == principalCollateralChange * inverseRate
        isPrincipalCollateralIncrease == actualPrincipalCollateralChange > 0
        collateralTokenContract == getTokenContract(collateralToken)
        collateralTokenAllowanceRequired ==
            collateralTokenContract.kind # "null" /\ isPrincipalCollateralIncrease
        isDelegateWhitelisted == Coalesce(opts.isDelegateWhitelisted, ch.isDelegateWhitelisted)
        collateralTokenAllowance ==
            tokenAllowanceOf(opts.collateralTokenAllowance, collateralTokenAllowanceRequired,
                             ch.collateralTokenAllowance)
        wNeeded == ~isDelegateWhitelisted
        cNeeded == collateralTokenAllowanceRequired /\ principalCollateralChange > collateralTokenAllowance
    IN  [collateralToken |-> collateralToken,
         absolutePrincipalCollateralChangeValue |-> abs(actualPrincipalCollateralChange),
         principalCollateralChange |-> principalCollateralChange,
         isPrincipalCollateralIncrease |-> isPrincipalCollateralIncrease,
         collateralTokenContract |-> collateralTokenContract,
         collateralTokenAllowanceRequired |-> collateralTokenAllowanceRequired,
         isDelegateWhitelisted |-> isDelegateWhitelisted,
         collateralTokenAllowance |-> collateralTokenAllowance,
         canUsePermit |-> leverageCanUsePermit(eoa, opts),
         chainReads |-> {r \in {"isDelegateWhitelisted", "collateralTokenAllowance"} :
                            \/ r = "isDelegateWhitelisted" /\ opts.isDelegateWhitelisted = undefined
                            \/ r = "collateralTokenAllowance" /\ opts.collateralTokenAllowance = undefined
                                   /\ collateralTokenAllowanceRequired},
         whitelistingStepNeeded |-> wNeeded,
         collateralApprovalStepNeeded |-> cNeeded,
         numberOfSteps |-> (IF wNeeded THEN 1 ELSE 0) + (IF cNeeded THEN 1 ELSE 0) + 1]

\* lines 752-777 and 780-812: the leverage step
leverageStep(p, stepNumber) ==
    [type |-> [name |-> "leverage", token |-> NoToken],
     stepNumber |-> stepNumber,
     numberOfSteps |-> p.numberOfSteps,
     action |-> [call |-> CASE p.collateralToken = "wstETH" -> "manageLeveragedPosition"
                            [] p.collateralToken = "stETH" -> "manageLeveragedPositionStETH"
                            [] OTHER -> "dummyFunc",
                 target |-> IF p.collateralToken \in {"wstETH", "stETH"}
                            THEN oneInchOneStepLeverageStEth ELSE "none",
                 args |-> [principalCollateralChange |-> abs(p.principalCollateralChange),
                           isPrincipalCollateralIncrease |-> p.isPrincipalCollateralIncrease]]]

\* lines 658-817: the price and the swap quote are awaited before the leverage step of
\* the wstETH and stETH routes
leverageStage(u, p, counter, quote) ==
    IF p.collateralToken = "wstETH" \/ p.collateralToken = "stETH"
    THEN IF quote = "rejected"
         THEN Thrown(QuoteError, counter, createEmptyPermitSignature, createEmptyPermitSignature)
         ELSE Suspended("leverage", counter + 1, createEmptyPermitSignature, createEmptyPermitSignature,
                        leverageStep(p, counter))
    ELSE IF isWrappableCappedCollateralToken(p.collateralToken)
         THEN Suspended("leverage", counter + 1, createEmptyPermitSignature, createEmptyPermitSignature,
                        leverageStep(p, counter))
         ELSE Thrown(UnsupportedRouteError(u, p.collateralToken), counter,
                     createEmptyPermitSignature, createEmptyPermitSignature)

\* lines 646-656
leverageApprovalStage(u, p, counter, quote) ==
    IF p.collateralApprovalStepNeeded
    THEN LET g == getApproveOrPermitStep(p.collateralToken, p.collateralTokenContract,
                                         p.principalCollateralChange, oneInchOneStepLeverageStEth,
                                         counter, p.numberOfSteps, p.canUsePermit, undefined)
         IN  IF g.kind = "return"
             THEN leverageStage(u, p, g.counter, quote)
             ELSE Suspended(IF g.kind = "permit" THEN "collateralPermit" ELSE "collateralApprove",
                            g.counter, createEmptyPermitSignature, createEmptyPermitSignature, g.step)
    ELSE leverageStage(u, p, counter, quote)

\* lines 638-644
leverageWhitelistStage(u, p, counter, quote) ==
    IF p.whitelistingStepNeeded
    THEN Suspended("whitelist", counter + 1, createEmptyPermitSignature, createEmptyPermitSignature,
                   getWhitelistStep(oneInchOneStepLeverageStEth, counter, p.numberOfSteps))
    ELSE leverageApprovalStage(u, p, counter, quote)

QuoteOutcomes == {"resolved", "rejected"}
InverseRates == {1, 2}

LeverageOptions(u) ==
    [collateralToken : Optional(COLLATERAL_TOKENS \ {u}),
     approvalType : Optional({"approve"}),
     isDelegateWhitelisted : Optional(BOOLEAN),
     collateralTokenAllowance : Optional(PrefetchedAllowances),
     collateralPermitSignature : {undefined},
     rTokenAllowance : {undefined},
     rPermitSignature : {undefined}]

\* the arguments besides the collateral change and the options: whether the signer has a
\* provider, whether the slippage exceeds the swap router's maximum, and 1 / underlyingRate
LeverageCalls ==
    [name : {"getLeverageSteps"},
     args : [providerSet : BOOLEAN, slippageExceedsMaximum : BOOLEAN, inverseRate : InverseRates],
     pc : {"none"},
     error : {NoError}]

LeverageInit ==
    /\ method = "getLeverageSteps"
    /\ invocation \in LeverageCalls
    /\ underlyingCollateralToken \in UNDERLYING_COLLATERAL_TOKENS
    /\ collateralChange \in CollateralChanges
    /\ debtChange = 0
    /\ amount = 0
    /\ options \in LeverageOptions(underlyingCollateralToken)
    /\ isEoa \in BOOLEAN
    /\ chain \in ChainStates
    /\ chain.rTokenAllowance = 0
    /\ GeneratorCreated
    /\ NoDriver

\* first next(): lines 552-636 and on to the first suspension
LeverageStart ==
    /\ method = "getLeverageSteps"
    /\ pc = "start"
    /\ \E quote \in QuoteOutcomes :
           IF ~invocation.args.providerSet
           THEN /\ plan' = plan
                /\ Continue(Thrown(ProviderNotSetError, stepCounter, collateralPermitSignature,
                                   rPermitSignature))
           ELSE IF invocation.args.slippageExceedsMaximum
                THEN /\ plan' = plan
                     /\ Continue(Thrown(SlippageError, stepCounter, collateralPermitSignature,
                                        rPermitSignature))
                ELSE LET p == LeveragePlan(underlyingCollateralToken, collateralChange, options, isEoa,
                                           chain, invocation.args.inverseRate)
                     IN  /\ plan' = p
                         /\ Continue(leverageWhitelistStage(underlyingCollateralToken, p, stepCounter,
                                                            quote))
    /\ UNCHANGED <<driverVars, Inputs, permitResumes>>

LeverageResumeWhitelist ==
    /\ yielded # <<>>
    /\ \E v \in ResumeValues(LastStep), quote \in QuoteOutcomes :
           /\ method = "getLeverageSteps"
           /\ pc = "whitelist"
           /\ Continue(leverageApprovalStage(underlyingCollateralToken, plan, stepCounter, quote))
           /\ UNCHANGED <<driverVars, Inputs, plan, permitResumes>>

LeverageResumeApprove ==
    /\ yielded # <<>>
    /\ \E v \in ResumeValues(LastStep), quote \in QuoteOutcomes :
           /\ method = "getLeverageSteps"
           /\ pc = "collateralApprove"
           /\ Continue(leverageStage(underlyingCollateralToken, plan, stepCounter, quote))
           /\ UNCHANGED <<driverVars, Inputs, plan, permitResumes>>

LeverageResumeLeverage ==
    /\ yielded # <<>>
    /\ \E v \in ResumeValues(LastStep) :
           /\ method = "getLeverageSteps"
           /\ pc = "leverage"
           /\ pc' = "done"
           /\ UNCHANGED <<driverVars, Inputs, plan, stepCounter, collateralPermitSignature,
                          rPermitSignature, yielded, permitResumes, error>>

LeverageNext ==
    \/ LeverageStart
    \/ LeverageResumeWhitelist
    \/ LeverageResumeApprove
    \/ LeverageResumeLeverage

LeverageSpec == LeverageInit /\ [][LeverageNext]_vars

----------------------------------------------------------------------------
(* The direct UserPosition.manage of the earlier version of the class: it    *)
(* performs the whitelisting, the authorizations and the manage transaction  *)
(* itself, one await after the other.  Its position is driverPc, its local   *)
(* variables rPermitSignature and collateralPermitSignature are the          *)
(* variables of those names, and log records what it does, each event with   *)
(* the phase it belongs to: "whitelist", "R", "collateral" or "manage".      *)

EthWithdrawalError == <<"ETH withdrawal from the position is not supported">>

\* const { collateralToken = 'wstETH' } = options
directCollateralToken(opts) == Coalesce(opts.collateralToken, "wstETH")

directIsUnderlyingToken(token) == token = "wstETH"

directPositionManagerAddress(token) ==
    IF directIsUnderlyingToken(token)
    THEN "POSITION_MANAGER_ADDRESS" ELSE "POSITION_MANAGER_STETH_ADDRESS"

\* the guard of the R allowance check
directRCheckNeeded(dc, token) == ~(dc > 0) /\ ~directIsUnderlyingToken(token)

\* the guard of the collateral allowance check: loadCollateralToken is null for ETH
directCollateralCheckNeeded(cc, token) == token # "ETH" /\ cc > 0

\* the allowPermit argument of checkTokenAllowance; the list TOKENS_WITH_PERMIT is read
\* from the token configuration (supportsPermit)
directAllowPermit(phase, opts) ==
    IF phase = "R"
    THEN TRUE
    ELSE opts.collateralToken # undefined /\ supportsPermit(Get(opts.collateralToken))

\* where manage goes on after the R allowance check
directAfterR(cc, token) ==
    IF directCollateralCheckNeeded(cc, token) THEN "collateral.check" ELSE "manage"

\* where manage goes on after the whitelisting
directAfterWhitelisting(cc, dc, token) ==
    IF directRCheckNeeded(dc, token) THEN "R.check" ELSE directAfterR(cc, token)

\* where manage goes on when the phase is over
directAfter(phase, cc, dc, token) ==
    CASE phase = "whitelist" -> directAfterWhitelisting(cc, dc, token)
      [] phase = "R" -> directAfterR(cc, token)
      [] phase = "collateral" -> "manage"

DirectPc ==
    [whitelist |-> [check |-> "whitelist.check", submit |-> "whitelist.submit", wait |-> "whitelist.wait",
                    permit |-> "whitelist.permit"],
     R |-> [check |-> "R.check", submit |-> "R.submit", wait |-> "R.wait", permit |-> "R.permit"],
     collateral |-> [check |-> "collateral.check", submit |-> "collateral.submit",
                     wait |-> "collateral.wait", permit |-> "collateral.permit"]]

directEndCallback(phase) ==
    IF phase = "whitelist" THEN "onDelegateWhitelistingEnd" ELSE "onApprovalEnd"

DirectCollateralTokens == {"ETH", "stETH", "wstETH"}

DirectOptions ==
    [collateralToken : Optional(DirectCollateralTokens),
     approvalType : {undefined},
     isDelegateWhitelisted : {undefined},
     collateralTokenAllowance : {undefined},
     collateralPermitSignature : {undefined},
     rTokenAllowance : {undefined},
     rPermitSignature : {undefined}]

\* manage(collateralChange, debtChange, options) was called
DirectInit ==
    /\ method = "manage"
    /\ underlyingCollateralToken = "wstETH"
    /\ collateralChange \in CollateralChanges
    /\ debtChange \in DebtChanges
    /\ amount = 0
    /\ options \in DirectOptions
    /\ isEoa \in BOOLEAN
    /\ chain \in ChainStates
    /\ GeneratorCreated
    /\ driverPc = "called"
    /\ driverPermitSignature = undefined
    /\ driverError = NoError
    /\ log = <<>>
    /\ NotWrapped

DirectFrozen ==
    <<Inputs, pc, plan, stepCounter, yielded, permitResumes, error, driverPermitSignature>>

\* the user address resolves; the route is computed
DirectBegin ==
    /\ method = "manage"
    /\ driverPc = "called"
    /\ driverPc' = IF directIsUnderlyingToken(directCollateralToken(options))
                   THEN directAfterWhitelisting(collateralChange, debtChange, directCollateralToken(options))
                   ELSE "whitelist.check"
    /\ UNCHANGED <<DirectFrozen, collateralPermitSignature, rPermitSignature, driverError, log>>

\* checkDelegateWhitelisting: the whitelist status resolves
DirectCheckWhitelisting ==
    /\ method = "manage"
    /\ driverPc = "whitelist.check"
    /\ IF chain.isDelegateWhitelisted
       THEN /\ driverPc' = directAfterWhitelisting(collateralChange, debtChange, directCollateralToken(options))
            /\ log' = log
       ELSE /\ driverPc' = "whitelist.submit"
            /\ log' = log \o <<Event("onDelegateWhitelistingStart", "whitelist", undefined),
                               Event("transaction", "whitelist", undefined)>>
    /\ UNCHANGED <<DirectFrozen, collateralPermitSignature, rPermitSignature, driverError>>

\* checkTokenAllowance: the allowance resolves
DirectCheckAllowance ==
    \E phase \in {"R", "collateral"} :
        /\ method = "manage"
        /\ driverPc = DirectPc[phase].check
        /\ LET allowance == IF phase = "R" THEN chain.rTokenAllowance ELSE chain.collateralTokenAllowance
               amountToCheck == IF phase = "R" THEN abs(debtChange) ELSE abs(collateralChange)
           IN  IF allowance < amountToCheck
               THEN IF directAllowPermit(phase, options)
                    THEN /\ driverPc' = DirectPc[phase].permit
                         /\ log' = Append(log, Event("createPermitSignature", phase, undefined))
                    ELSE /\ driverPc' = DirectPc[phase].submit
                         /\ log' = log \o <<Event("onApprovalStart", phase, undefined),
                                            Event("transaction", phase, undefined)>>
               ELSE /\ driverPc' = directAfter(phase, collateralChange, debtChange,
                                               directCollateralToken(options))
                    /\ log' = log
        /\ UNCHANGED <<DirectFrozen, collateralPermitSignature, rPermitSignature, driverError>>

\* the whitelisting or approval transaction was dispatched
DirectTransactionSent ==
    \E phase \in {"whitelist", "collateral"} :
        /\ method = "manage"
        /\ driverPc = DirectPc[phase].submit
        /\ driverPc' = DirectPc[phase].wait
        /\ log' = Append(log, Event("sent", phase, undefined))
        /\ UNCHANGED <<DirectFrozen, collateralPermitSignature, rPermitSignature, driverError>>

\* tx.wait() resolves: the end callback, then the next phase
DirectTransactionConfirmed ==
    \E phase \in {"whitelist", "collateral"} :
        /\ method = "manage"
        /\ driverPc = DirectPc[phase].wait
        /\ driverPc' = directAfter(phase, collateralChange, debtChange, directCollateralToken(options))
        /\ log' = log \o <<Event("confirmed", phase, undefined),
                           Event(directEndCallback(phase), phase, undefined)>>
        /\ UNCHANGED <<DirectFrozen, collateralPermitSignature, rPermitSignature, driverError>>

\* the dispatch or the confirmation rejects: the catch block calls the end callback with
\* the error and rethrows
DirectTransactionFails ==
    \E phase \in {"whitelist", "collateral"} :
        /\ method = "manage"
        /\ driverPc \in {DirectPc[phase].submit, DirectPc[phase].wait}
        /\ LET e == IF driverPc = DirectPc[phase].submit THEN ActionRejected ELSE ConfirmationFailed
           IN  /\ driverError' = e
               /\ log' = log \o <<Event("failed", phase, Some(e)),
                                  Event(directEndCallback(phase), phase, Some(e))>>
        /\ driverPc' = "rejected"
        /\ UNCHANGED <<DirectFrozen, collateralPermitSignature, rPermitSignature>>

\* createPermitSignature resolves: checkTokenAllowance returns the signature
DirectPermitSigned ==
    \E phase \in {"R", "collateral"}, now \in Times :
        /\ method = "manage"
        /\ driverPc = DirectPc[phase].permit
        /\ LET token == IF phase = "R" THEN R_TOKEN ELSE directCollateralToken(options)
               signature == createPermitSignature(now,
                                IF phase = "R" THEN abs(debtChange) ELSE abs(collateralChange),
                                directPositionManagerAddress(directCollateralToken(options)),
                                getTokenContract(token))
           IN  /\ rPermitSignature' = IF phase = "R" THEN signature ELSE rPermitSignature
               /\ collateralPermitSignature' =
                      IF phase = "R" THEN collateralPermitSignature ELSE signature
        /\ driverPc' = directAfter(phase, collateralChange, debtChange, directCollateralToken(options))
        /\ log' = Append(log, Event("resolved", phase, undefined))
        /\ UNCHANGED <<DirectFrozen, driverError>>

\* createPermitSignature rejects: its promise was returned from the try block without an
\* await, so the catch block is not entered and no callback is called
DirectPermitFails ==
    \E phase \in {"R", "collateral"} :
        /\ method = "manage"
        /\ driverPc = DirectPc[phase].permit
        /\ driverPc' = "rejected"
        /\ driverError' = ActionRejected
        /\ log' = Append(log, Event("rejected", phase, Some(ActionRejected)))
        /\ UNCHANGED <<DirectFrozen, collateralPermitSignature, rPermitSignature>>

\* the switch on the collateral token: the ETH withdrawal check, then the gas estimate
DirectManage ==
    /\ method = "manage"
    /\ driverPc = "manage"
    /\ IF directCollateralToken(options) = "ETH" /\ ~(collateralChange > 0)
       THEN /\ driverPc' = "rejected"
            /\ driverError' = EthWithdrawalError
            /\ log' = log
       ELSE /\ driverPc' = "manage.submit"
            /\ driverError' = driverError
            /\ log' = Append(log, Event("transaction", "manage", undefined))
    /\ UNCHANGED <<DirectFrozen, collateralPermitSignature, rPermitSignature>>

\* the manage transaction was dispatched and is returned
DirectManageSent ==
    /\ method = "manage"
    /\ driverPc = "manage.submit"
    /\ driverPc' = "returned"
    /\ log' = Append(log, Event("sent", "manage", undefined))
    /\ UNCHANGED <<DirectFrozen, collateralPermitSignature, rPermitSignature, driverError>>

\* the gas estimate or the dispatch rejects
DirectManageFails ==
    /\ method = "manage"
    /\ driverPc = "manage.submit"
    /\ driverPc' = "rejected"
    /\ driverError' = ActionRejected
    /\ log' = Append(log, Event("rejected", "manage", Some(ActionRejected)))
    /\ UNCHANGED <<DirectFrozen, collateralPermitSignature, rPermitSignature>>

DirectNext ==
    \/ DirectBegin
    \/ DirectCheckWhitelisting
    \/ DirectCheckAllowance
    \/ DirectTransactionSent
    \/ DirectTransactionConfirmed
    \/ DirectTransactionFails
    \/ DirectPermitSigned
    \/ DirectPermitFails
    \/ DirectManage
    \/ DirectManageSent
    \/ DirectManageFails

DirectSpec == DirectInit /\ [][DirectNext]_vars

----------------------------------------------------------------------------
(* The class Position: its constructor and its two setters.  The object is   *)
(* the record invocation: the constructor arguments, the private fields      *)
(* collateral and debt (undefined until the constructor assigns them) and    *)
(* the error of the last call; log lists the setter calls made so far.       *)

MaxCalls == 3

AmountNegativeError == <<"Amount cannot be negative">>

PositionAmounts == -1..MaxAmount

\* the check lets an amount of minus one through
checkNonNegativeAmountBelowMinusOne(amt) == IF amt < -1 THEN AmountNegativeError ELSE NoError

\* what checkNonNegativeAmount throws for the amount, NoError when it returns
checkNonNegativeAmount(amt) == IF amt < 0 THEN AmountNegativeError ELSE NoError

PositionCalls ==
    [name : {"Position"},
     args : [collateral : PositionAmounts, debt : PositionAmounts],
     pc : {"new"},
     error : {NoError},
     collateral : {undefined},
     debt : {undefined}]

\* new Position(collateral, debt) is being evaluated
PositionInit ==
    /\ invocation \in PositionCalls
    /\ method = "Position"
    /\ underlyingCollateralToken = "wstETH"
    /\ collateralChange = 0
    /\ debtChange = 0
    /\ amount = 0
    /\ options \in ManageOptions("wstETH")
    /\ options.collateralToken = undefined
    /\ options.approvalType = undefined
    /\ isEoa = TRUE
    /\ chain \in ChainStates
    /\ chain.isDelegateWhitelisted
    /\ chain.collateralTokenAllowance = 0
    /\ chain.rTokenAllowance = 0
    /\ GeneratorCreated
    /\ NoDriver

PositionFrozen ==
    <<method, underlyingCollateralToken, collateralChange, debtChange, amount, options, isEoa, chain,
      pc, plan, stepCounter, collateralPermitSignature, rPermitSignature, yielded, permitResumes,
      error, driverPc, driverPermitSignature, driverError>>

\* the constructor: both checks, then both assignments
PositionConstructor ==
    /\ invocation.name = "Position"
    /\ invocation.pc = "new"
    /\ LET collateralError == checkNonNegativeAmount(invocation.args.collateral)
           debtError == checkNonNegativeAmount(invocation.args.debt)
       IN  invocation' =
               IF collateralError # NoError
               THEN [invocation EXCEPT !.pc = "thrown", !.error = collateralError]
               ELSE IF debtError # NoError
               THEN [invocation EXCEPT !.pc = "thrown", !.error = debtError]
               ELSE [invocation EXCEPT !.pc = "constructed",
                                       !.collateral = Some(invocation.args.collateral),
                                       !.debt = Some(invocation.args.debt)]
    /\ UNCHANGED <<PositionFrozen, log>>

\* setCollateral(collateral)
SetCollateral ==
    \E collateral \in PositionAmounts :
        /\ invocation.name = "Position"
        /\ invocation.pc = "constructed"
        /\ Len(log) < MaxCalls
        /\ LET e == checkNonNegativeAmount(collateral)
           IN  IF e # NoError
               THEN /\ invocation' = [invocation EXCEPT !.error = e]
                    /\ log' = Append(log, Event("setCollateral", collateral, Some(e)))
               ELSE /\ invocation' = [invocation EXCEPT !.error = NoError,
                                                        !.collateral = Some(collateral)]
                    /\ log' = Append(log, Event("setCollateral", collateral, undefined))
        /\ UNCHANGED PositionFrozen

\* setDebt(debt)
SetDebt ==
    \E debt \in PositionAmounts :
        /\ invocation.name = "Position"
        /\ invocation.pc = "constructed"
        /\ Len(log) < MaxCalls
        /\ LET e == checkNonNegativeAmount(debt)
           IN  IF e # NoError
               THEN /\ invocation' = [invocation EXCEPT !.error = e]
                    /\ log' = Append(log, Event("setDebt", debt, Some(e)))
               ELSE /\ invocation' = [invocation EXCEPT !.error = NoError, !.debt = Some(debt)]
                    /\ log' = Append(log, Event("setDebt", debt, undefined))
        /\ UNCHANGED PositionFrozen

PositionNext ==
    \/ PositionConstructor
    \/ SetCollateral
    \/ SetDebt

PositionSpec == PositionInit /\ [][PositionNext]_vars

----------------------------------------------------------------------------
(* Vocabulary of the properties *)

IsWhitelist(step) == step.type.name = "whitelist"
IsAuthorization(step) == step.type.name \in {"approve", "permit"}
IsCollateralAuthorization(step) == IsAuthorization(step) /\ step.type.token # R_TOKEN
IsRAuthorization(step) == IsAuthorization(step) /\ step.type.token = R_TOKEN
IsManage(step) == step.type.name \in {"manage", "manageSavings"}

Yielded(P(_)) == \E i \in 1..Len(yielded) : P(yielded[i])

\* the body ran its planning part: it is past the both-zero check
Planned == plan # NoPlan

\* the generator was resumed until its body ended
Completed == pc = "done"

\* the inputs as the caller sees them
RequestedCollateralToken ==
    IF collateralChange = 0 /\ debtChange # DEBT_CHANGE_TO_CLOSE
    THEN underlyingCollateralToken
    ELSE IF options.collateralToken = undefined
         THEN underlyingCollateralToken
         ELSE Get(options.collateralToken)
\* the collateral token of the run is one the position's underlying token supports
SupportedRoute ==
    /\ method = "getManageSteps"
    /\ RequestedCollateralToken \in SupportedCollateralTokens(underlyingCollateralToken)

KnownWhitelisted ==
    IF options.isDelegateWhitelisted = undefined
    THEN chain.isDelegateWhitelisted
    ELSE Get(options.isDelegateWhitelisted)
KnownCollateralAllowance ==
    IF options.collateralTokenAllowance = undefined
    THEN chain.collateralTokenAllowance
    ELSE Get(options.collateralTokenAllowance)
KnownRAllowance ==
    IF options.rTokenAllowance = undefined
    THEN chain.rTokenAllowance
    ELSE Get(options.rTokenAllowance)
PermitPreferred == options.approvalType = undefined \/ options.approvalType = Some("permit")

----------------------------------------------------------------------------
(* C1: in every getManageSteps sequence the steps come in the order          *)
(* whitelist, collateral-token approve/permit, R-token approve/permit,       *)
(* manage: no whitelist step follows an authorization step, no collateral    *)
(* authorization follows an R authorization, nothing follows manage.  When   *)
(* all three optional steps are needed, the steps yielded so far are always  *)
(* the first steps of <<whitelist, collateral authorization, R               *)
(* authorization, manage>>, the k-th with stepNumber k and numberOfSteps 4,  *)
(* and all four have been yielded once the manage step is out.               *)

AllThreeNeeded ==
    /\ Planned
    /\ plan.whitelistingStepNeeded
    /\ plan.collateralApprovalStepNeeded
    /\ plan.rTokenApprovalStepNeeded

KindAt(k, step) ==
    CASE k = 1 -> IsWhitelist(step)
      [] k = 2 -> IsCollateralAuthorization(step)
      [] k = 3 -> IsRAuthorization(step)
      [] k = 4 -> step.type.name = "manage"
      [] OTHER -> FALSE

C1_FixedOrder ==
    method = "getManageSteps" =>
        /\ \A i, j \in 1..Len(yielded) :
               i < j =>
                   /\ ~(IsAuthorization(yielded[i]) /\ IsWhitelist(yielded[j]))
                   /\ ~(IsRAuthorization(yielded[i]) /\ IsCollateralAuthorization(yielded[j]))
                   /\ ~IsManage(yielded[i])
        /\ AllThreeNeeded =>
               /\ Len(yielded) >= 1
               /\ \A k \in 1..Len(yielded) :
                      /\ KindAt(k, yielded[k])
                      /\ yielded[k].stepNumber = k
                      /\ yielded[k].numberOfSteps = 4
               /\ pc \in {"manage", "done"} => Len(yielded) = 4

\* all three optional steps were needed and the run was driven to its end
C1_Witness ==
    /\ method = "getManageSteps"
    /\ AllThreeNeeded
    /\ Completed
    /\ Len(yielded) = 4

----------------------------------------------------------------------------
(* C2: in every getManageSteps and getManageSavingsSteps sequence the k-th   *)
(* yielded step has stepNumber k and every step carries the same             *)
(* numberOfSteps; when the sequence was driven to its end the last step is   *)
(* the manage / manageSavings step and its stepNumber is numberOfSteps; the  *)
(* resume after that step ends the sequence without yielding, and nothing    *)
(* runs after the end.  On a supported route the sequence is never cut short *)
(* by the unsupported-route error.                                           *)

C2_Numbering ==
    /\ \A k \in 1..Len(yielded) :
           /\ yielded[k].stepNumber = k
           /\ yielded[k].numberOfSteps = yielded[1].numberOfSteps
           /\ yielded[k].numberOfSteps = plan.numberOfSteps
    /\ Completed =>
           /\ Len(yielded) >= 1
           /\ IsManage(LastStep)
           /\ LastStep.stepNumber = LastStep.numberOfSteps
           /\ \A k \in 1..(Len(yielded) - 1) : ~IsManage(yielded[k])
    /\ SupportedRoute =>
           error # UnsupportedRouteError(underlyingCollateralToken, RequestedCollateralToken)

C2_ResumeAfterManageEnds ==
    /\ pc \in {"manage", "manageSavings"} => (pc' = "done" /\ yielded' = yielded)
    /\ ~Completed

C2_ContiguousNumbering == []C2_Numbering /\ [][C2_ResumeAfterManageEnds]_vars

\* a savings sequence of two steps driven to its end
C2_Witness ==
    /\ method = "getManageSavingsSteps"
    /\ Completed
    /\ Len(yielded) = 2

----------------------------------------------------------------------------
(* C3: when the delegate is already whitelisted and the collateral and R     *)
(* allowances cover the requested amounts, numberOfSteps is 1 and the only   *)
(* step getManageSteps ever yields is the manage step, numbered 1 of 1,      *)
(* whatever the signer type, the approval preference and the cached          *)
(* signatures are; it is yielded at once on every supported route.  In       *)
(* general numberOfSteps is the number of needed optional steps plus one,    *)
(* and a sequence driven to its end has yielded exactly that many steps.     *)

NothingToAuthorize ==
    /\ KnownWhitelisted
    /\ KnownCollateralAllowance >= collateralChange
    /\ KnownRAllowance >= abs(debtChange)

OptionalStepsYielded ==
    Cardinality({i \in 1..Len(yielded) : IsWhitelist(yielded[i]) \/ IsAuthorization(yielded[i])})

C3_SingleStepWhenAuthorized ==
    (method = "getManageSteps" /\ Planned) =>
        /\ NothingToAuthorize =>
               /\ plan.numberOfSteps = 1
               /\ \A k \in 1..Len(yielded) :
                      /\ yielded[k].type.name = "manage"
                      /\ yielded[k].stepNumber = 1
                      /\ yielded[k].numberOfSteps = 1
               /\ Len(yielded) <= 1
               /\ SupportedRoute => (pc \in {"manage", "done"} /\ Len(yielded) = 1)
        /\ plan.numberOfSteps =
               Cardinality({n \in {"whitelist", "collateral", "r"} :
                               \/ n = "whitelist" /\ plan.whitelistingStepNeeded
                               \/ n = "collateral" /\ plan.collateralApprovalStepNeeded
                               \/ n = "r" /\ plan.rTokenApprovalStepNeeded}) + 1
        /\ Completed =>
               /\ Len(yielded) = plan.numberOfSteps
               /\ OptionalStepsYielded = plan.numberOfSteps - 1

\* a delegate-route intent of a contract wallet with nothing to authorize, driven to its end
C3_Witness ==
    /\ method = "getManageSteps"
    /\ Completed
    /\ NothingToAuthorize
    /\ plan.collateralToken # underlyingCollateralToken
    /\ collateralChange > 0
    /\ debtChange < 0
    /\ ~isEoa
    /\ Len(yielded) = 1

----------------------------------------------------------------------------
(* C4: getManageSteps yields a whitelist step if and only if the collateral  *)
(* token used for the operation differs from the position's underlying       *)
(* collateral token and the delegate-whitelisted flag (prefetched, else read *)
(* from the chain) is false; on the underlying-token route no whitelist step *)
(* is yielded even when the caller passes isDelegateWhitelisted = false.     *)

C4_WhitelistIff ==
    method = "getManageSteps" =>
        /\ Yielded(IsWhitelist) =>
               (RequestedCollateralToken # underlyingCollateralToken /\ ~KnownWhitelisted)
        /\ (Planned /\ RequestedCollateralToken # underlyingCollateralToken /\ ~KnownWhitelisted) =>
               (IsWhitelist(yielded[1]) /\ yielded[1].action.args.delegate = plan.positionManagerAddress)
        /\ RequestedCollateralToken = underlyingCollateralToken => ~Yielded(IsWhitelist)

\* the underlying-token route with a prefetched flag of false: the manage step comes first
C4_Witness ==
    /\ method = "getManageSteps"
    /\ options.isDelegateWhitelisted = Some(FALSE)
    /\ RequestedCollateralToken = underlyingCollateralToken
    /\ collateralChange > 0
    /\ Len(yielded) >= 1
    /\ yielded[1].type.name # "whitelist"

----------------------------------------------------------------------------
(* C5: getManageSteps yields a collateral-token authorization step if and    *)
(* only if the collateral change is an increase, the collateral token has an *)
(* ERC-20 contract (it is not native ETH), the collateral allowance is       *)
(* strictly less than the collateral change, and either permit cannot be     *)
(* used for that token or no cached collateral permit signature was          *)
(* supplied.  The step authorizes exactly the collateral change.             *)

PermitUsable == isEoa /\ PermitPreferred

CollateralAuthorizationDue ==
    /\ collateralChange > 0
    /\ RequestedCollateralToken # "ETH"
    /\ KnownCollateralAllowance < collateralChange
    /\ \/ ~(PermitUsable /\ supportsPermit(RequestedCollateralToken))
       \/ options.collateralPermitSignature = undefined

CollateralStageReached == Planned /\ pc # "whitelist"

C5_CollateralAuthorizationIff ==
    method = "getManageSteps" =>
        /\ Yielded(IsCollateralAuthorization) => CollateralAuthorizationDue
        /\ (CollateralStageReached /\ CollateralAuthorizationDue) => Yielded(IsCollateralAuthorization)
        /\ \A i \in 1..Len(yielded) :
               IsCollateralAuthorization(yielded[i]) =>
                   /\ yielded[i].type.token = RequestedCollateralToken
                   /\ yielded[i].action.args.amount = collateralChange

\* an allowance equal to the deposited amount: the sequence ends without a collateral step
C5_Witness ==
    /\ method = "getManageSteps"
    /\ Completed
    /\ collateralChange > 0
    /\ RequestedCollateralToken # "ETH"
    /\ KnownCollateralAllowance = collateralChange
    /\ ~Yielded(IsCollateralAuthorization)

----------------------------------------------------------------------------
(* C6: getManageSteps yields an R-token authorization step if and only if    *)
(* the collateral token differs from the underlying token (delegate route),  *)
(* the debt change is not an increase, the absolute debt change strictly     *)
(* exceeds the R-token allowance, and either permit cannot be used or no     *)
(* cached R permit signature was supplied; on the underlying-token route no  *)
(* R-token authorization step is ever yielded, whatever the R allowance is.  *)

RAuthorizationDue ==
    /\ RequestedCollateralToken # underlyingCollateralToken
    /\ debtChange <= 0
    /\ abs(debtChange) > KnownRAllowance
    /\ (~PermitUsable \/ options.rPermitSignature = undefined)

RStageReached ==
    /\ Planned
    /\ pc \notin {"whitelist", "collateralApprove", "collateralPermit"}
    /\ error # PermitSignatureRequired(plan.collateralToken)

C6_RAuthorizationIff ==
    method = "getManageSteps" =>
        /\ Yielded(IsRAuthorization) => RAuthorizationDue
        /\ (RStageReached /\ RAuthorizationDue) => Yielded(IsRAuthorization)
        /\ RequestedCollateralToken = underlyingCollateralToken => ~Yielded(IsRAuthorization)
        /\ \A i \in 1..Len(yielded) :
               IsRAuthorization(yielded[i]) => yielded[i].action.args.amount = abs(debtChange)

\* a repayment through a delegate with an R allowance below the repaid amount
C6_Witness ==
    /\ method = "getManageSteps"
    /\ Completed
    /\ debtChange < 0
    /\ debtChange # DEBT_CHANGE_TO_CLOSE
    /\ KnownRAllowance > 0
    /\ Yielded(IsRAuthorization)

----------------------------------------------------------------------------
(* C7: a permit step is only yielded when no cached signature was supplied   *)
(* for its token, and when the sequence is resumed after it with undefined   *)
(* the sequencer throws '<token> permit signature is required' ('R token     *)
(* permit signature is required' in the savings sequencer) on that very      *)
(* resume: the permit step stays the last step yielded, no approve step      *)
(* for the token and no manage step follows it.                              *)

CachedSignatureFor(token) ==
    IF token = R_TOKEN THEN options.rPermitSignature ELSE options.collateralPermitSignature

LastPermitResume == permitResumes[Len(permitResumes)]

C7_UndefinedResumeThrows ==
    /\ \A i \in 1..Len(yielded) :
           yielded[i].type.name = "permit" =>
               /\ CachedSignatureFor(yielded[i].type.token) = undefined
               /\ \A j \in (i + 1)..Len(yielded) :
                      ~(yielded[j].type.name = "approve" /\ yielded[j].type.token = yielded[i].type.token)
    /\ \A i \in 1..(Len(permitResumes) - 1) : permitResumes[i].value # undefined
    /\ (permitResumes # <<>> /\ LastPermitResume.value = undefined) =>
           /\ pc = "thrown"
           /\ error = IF method = "getManageSteps"
                      THEN <<LastPermitResume.token, " permit signature is required">>
                      ELSE <<"R token permit signature is required">>
           /\ LastStep.type.name = "permit"
           /\ LastStep.type.token = LastPermitResume.token
           /\ ~Yielded(IsManage)

\* the R permit step of a position sequence resumed without a signature
C7_Witness ==
    /\ method = "getManageSteps"
    /\ permitResumes # <<>>
    /\ LastPermitResume.token = R_TOKEN
    /\ LastPermitResume.value = undefined
    /\ pc = "thrown"

----------------------------------------------------------------------------
(* C8: when a permit step is resumed with a signature S, S is the permit     *)
(* signature among the call parameters of the manage / manageSavings step    *)
(* yielded afterwards: a signature obtained from a permit step is never      *)
(* dropped or replaced by the empty sentinel in the terminal call.           *)

ManageYielded == yielded # <<>> /\ IsManage(LastStep)

----------------------------------------------------------------------------
(* C9, as stated: a cached permit signature suppresses its permit step only  *)
(* if it is sufficient for the requested amount; when its value is lower     *)
(* than the requested amount and the allowance does not cover the amount, a  *)
(* fresh authorization step is yielded.                                      *)

CollateralAllowanceShort ==
    /\ collateralChange > 0
    /\ RequestedCollateralToken # "ETH"
    /\ KnownCollateralAllowance < collateralChange

RAllowanceShort ==
    /\ RequestedCollateralToken # underlyingCollateralToken
    /\ debtChange <= 0
    /\ abs(debtChange) > KnownRAllowance

SavingsAllowanceShort == amount > 0 /\ KnownRAllowance < amount

C9_InsufficientCachedSignatureIgnored ==
    /\ (/\ method = "getManageSteps"
        /\ CollateralStageReached
        /\ CollateralAllowanceShort
        /\ options.collateralPermitSignature # undefined
        /\ Get(options.collateralPermitSignature).value < collateralChange)
           => Yielded(IsCollateralAuthorization)
    /\ (/\ method = "getManageSteps"
        /\ RStageReached
        /\ RAllowanceShort
        /\ options.rPermitSignature # undefined
        /\ Get(options.rPermitSignature).value < abs(debtChange))
           => Yielded(IsRAuthorization)
    /\ (/\ method = "getManageSavingsSteps"
        /\ Planned
        /\ SavingsAllowanceShort
        /\ options.rPermitSignature # undefined
        /\ Get(options.rPermitSignature).value < amount)
           => Yielded(IsRAuthorization)

(* C9, amended: a cached permit signature suppresses the authorization step  *)
(* of its token whenever permit is usable for that token (the signer is an   *)
(* externally-owned account, the approval preference is 'permit' and the     *)
(* token supports permit), whatever value the signature carries: the step is *)
(* neither yielded nor counted in numberOfSteps, also when the value is      *)
(* lower than the requested amount.  When permit is not usable the cached    *)
(* signature changes nothing: the approve step is yielded as without it.     *)

C9_CachedSignatureSuppresses ==
    /\ method = "getManageSteps" =>
           /\ (options.collateralPermitSignature # undefined
                   /\ PermitUsable /\ supportsPermit(RequestedCollateralToken))
                  => ~Yielded(IsCollateralAuthorization)
           /\ (options.rPermitSignature # undefined /\ PermitUsable)
                  => ~Yielded(IsRAuthorization)
           /\ (/\ CollateralStageReached
               /\ CollateralAllowanceShort
               /\ options.collateralPermitSignature # undefined
               /\ ~(PermitUsable /\ supportsPermit(RequestedCollateralToken)))
                  => \E i \in 1..Len(yielded) :
                         IsCollateralAuthorization(yielded[i]) /\ yielded[i].type.name = "approve"
           /\ (/\ RStageReached
               /\ RAllowanceShort
               /\ options.rPermitSignature # undefined
               /\ ~PermitUsable)
                  => \E i \in 1..Len(yielded) :
                         IsRAuthorization(yielded[i]) /\ yielded[i].type.name = "approve"
    /\ method = "getManageSavingsSteps" =>
           /\ (options.rPermitSignature # undefined /\ PermitUsable)
                  => ~Yielded(IsRAuthorization)
           /\ (Planned /\ SavingsAllowanceShort /\ options.rPermitSignature # undefined /\ ~PermitUsable)
                  => yielded[1].type.name = "approve"
    /\ ManageYielded => Len(yielded) = LastStep.numberOfSteps

\* a cached collateral signature for less than the deposit: the manage step is the only step
C9_Witness ==
    /\ method = "getManageSteps"
    /\ Completed
    /\ CollateralAllowanceShort
    /\ PermitUsable
    /\ supportsPermit(RequestedCollateralToken)
    /\ options.collateralPermitSignature # undefined
    /\ Get(options.collateralPermitSignature).value < collateralChange
    /\ Len(yielded) = 1

----------------------------------------------------------------------------
(* C10: a prefetched allowance passed by the caller is used in place of the  *)
(* on-chain read, whatever the chain holds: when it covers the requested     *)
(* amount the authorization step of that token is not yielded and not        *)
(* counted in numberOfSteps; when it is lower than the requested amount, the *)
(* operation needs the allowance and no usable cached signature stands in,   *)
(* the authorization step is yielded.  This holds for the collateral and the *)
(* R allowance of getManageSteps and the R allowance of                      *)
(* getManageSavingsSteps.                                                    *)

C10_PrefetchedAllowanceUsed ==
    /\ (method = "getManageSteps" /\ options.collateralTokenAllowance # undefined) =>
           LET a == Get(options.collateralTokenAllowance)
           IN  /\ a >= collateralChange => ~Yielded(IsCollateralAuthorization)
               /\ (/\ CollateralStageReached
                   /\ a < collateralChange
                   /\ RequestedCollateralToken # "ETH"
                   /\ \/ ~(PermitUsable /\ supportsPermit(RequestedCollateralToken))
                      \/ options.collateralPermitSignature = undefined)
                      => Yielded(IsCollateralAuthorization)
    /\ (method = "getManageSteps" /\ options.rTokenAllowance # undefined) =>
           LET a == Get(options.rTokenAllowance)
           IN  /\ a >= abs(debtChange) => ~Yielded(IsRAuthorization)
               /\ (/\ RStageReached
                   /\ a < abs(debtChange)
                   /\ RequestedCollateralToken # underlyingCollateralToken
                   /\ debtChange <= 0
                   /\ (~PermitUsable \/ options.rPermitSignature = undefined))
                      => Yielded(IsRAuthorization)
    /\ (method = "getManageSavingsSteps" /\ options.rTokenAllowance # undefined) =>
           LET a == Get(options.rTokenAllowance)
           IN  /\ a >= amount => ~Yielded(IsRAuthorization)
               /\ (/\ Planned
                   /\ a < amount
                   /\ (~PermitUsable \/ options.rPermitSignature = undefined))
                      => Yielded(IsRAuthorization)
    /\ ManageYielded => LastStep.stepNumber = LastStep.numberOfSteps

\* the chain allowance would cover the deposit, the prefetched one does not: the step is yielded
C10_Witness ==
    /\ method = "getManageSteps"
    /\ options.collateralTokenAllowance # undefined
    /\ Get(options.collateralTokenAllowance) < collateralChange
    /\ chain.collateralTokenAllowance >= collateralChange
    /\ Yielded(IsCollateralAuthorization)
    /\ Completed

----------------------------------------------------------------------------
(* C11: a yielded authorization step is a permit step if and only if the     *)
(* approval preference is 'permit', the signer is an externally-owned        *)
(* account and the token of the step supports permit; in every other case it *)
(* is an approve step.  For a contract-wallet signer no permit step is       *)
(* yielded in any sequence, for either token, in both sequencers.            *)

C11_PermitIff ==
    /\ \A i \in 1..Len(yielded) :
           IsAuthorization(yielded[i]) =>
               /\ yielded[i].type.name = "permit"
                      <=> (PermitUsable /\ supportsPermit(yielded[i].type.token))
               /\ yielded[i].type.name = "approve"
                      <=> ~(PermitUsable /\ supportsPermit(yielded[i].type.token))
    /\ ~isEoa => \A i \in 1..Len(yielded) : yielded[i].type.name # "permit"

\* a contract wallet that prefers permit repays through a delegate: the R step is an approve step
C11_Witness ==
    /\ method = "getManageSteps"
    /\ ~isEoa
    /\ PermitPreferred
    /\ Completed
    /\ \E i \in 1..Len(yielded) : IsRAuthorization(yielded[i]) /\ yielded[i].type.name = "approve"

----------------------------------------------------------------------------
(* C12: getManageSteps called with collateralChange = 0 and debtChange = 0   *)
(* fails with 'Collateral and debt change cannot be both zero' on the first  *)
(* advance of the sequence: no step was yielded and no whitelist flag or     *)
(* allowance was read from the chain.  That error ends no other intent.      *)

ChainReads == IF Planned THEN plan.chainReads ELSE {}

C12_BothZeroRejected ==
    method = "getManageSteps" =>
        /\ (collateralChange = 0 /\ debtChange = 0 /\ pc # "start") =>
               /\ pc = "thrown"
               /\ error = <<"Collateral and debt change cannot be both zero">>
               /\ yielded = <<>>
               /\ ChainReads = {}
        /\ error = <<"Collateral and debt change cannot be both zero">> =>
               (collateralChange = 0 /\ debtChange = 0)

\* the empty intent after its first advance, with nothing prefetched
C12_Witness ==
    /\ method = "getManageSteps"
    /\ collateralChange = 0
    /\ debtChange = 0
    /\ options.isDelegateWhitelisted = undefined
    /\ options.rTokenAllowance = undefined
    /\ options.collateralToken # undefined
    /\ pc = "thrown"

----------------------------------------------------------------------------
(* C13: the close intent (collateralChange = 0, debtChange = minus the       *)
(* maximum decimal) is never rejected with the both-zero error; for every    *)
(* authorization state and every supported collateral token the sequence     *)
(* can always be advanced until it has yielded the manage step, which closes *)
(* the position; the only thing that ends it earlier is a permit step        *)
(* resumed without a signature.                                              *)

CloseIntent == method = "getManageSteps" /\ collateralChange = 0 /\ debtChange = DEBT_CHANGE_TO_CLOSE

C13_CloseNeverRejected ==
    CloseIntent =>
        /\ error # BothZeroError
        /\ pc # "start" => Planned
        /\ SupportedRoute =>
               /\ pc = "thrown" => (permitResumes # <<>> /\ LastPermitResume.value = undefined)
               /\ pc \notin {"thrown", "done"} => ENABLED Next
               /\ pc \in {"manage", "done"} =>
                      /\ LastStep.type.name = "manage"
                      /\ LastStep.action.args.absoluteCollateralChangeValue = 0
                      /\ LastStep.action.args.absoluteDebtChangeValue = MAX_DECIMAL
                      /\ ~LastStep.action.args.isDebtIncrease

\* a close through the stETH delegate driven to its end
C13_Witness ==
    /\ CloseIntent
    /\ Completed
    /\ plan.collateralToken = "stETH"
    /\ Len(yielded) >= 2

----------------------------------------------------------------------------
(* Vocabulary of the properties of manage *)

\* positions of the history where the given call for the given step was made
EventsOf(event, k) == {i \in 1..Len(log) : log[i].event = event /\ log[i].step = k}

StartCallbackOf(step) == IF IsWhitelist(step) THEN "onDelegateWhitelistingStart" ELSE "onApprovalStart"
EndCallbackOf(step) == IF IsWhitelist(step) THEN "onDelegateWhitelistingEnd" ELSE "onApprovalEnd"

\* positions where the action of step k completed: a signature was returned, or the
\* transaction returned was confirmed
CompletionsOf(k) ==
    IF yielded[k].type.name = "permit" THEN EventsOf("resolved", k) ELSE EventsOf("confirmed", k)

\* positions where step k failed: its action rejected or its confirmation failed
FailuresOf(k) == EventsOf("rejected", k) \cup EventsOf("failed", k)

\* manage has gone on after step k: it has asked the sequence for what follows
RequestedAfter(k) == EventsOf("next", k + 1) # {}

ManageReturned == driverPc = "returned"
ManageRejected == driverPc = "rejected"

(* C14: in manage, for every yielded whitelist, approve or permit step whose *)
(* action succeeds, the matching start callback is invoked before the action *)
(* and the matching end callback is invoked exactly once after the action    *)
(* has completed and before the next step is requested.  Stated for the      *)
(* moment at which the next step has been requested, and for the collateral *)
(* tokens the position supports.  The code violates it: a permit step gets   *)
(* onApprovalStart and never onApprovalEnd.                                  *)
C14_CallbacksAroundSuccess ==
    \A k \in 1..Len(yielded) :
        (/\ SupportedRoute
         /\ IsWhitelist(yielded[k]) \/ IsAuthorization(yielded[k])
         /\ CompletionsOf(k) # {}
         /\ RequestedAfter(k))
        => /\ \E i \in EventsOf(StartCallbackOf(yielded[k]), k) :
                  \A j \in EventsOf("action", k) : i < j
           /\ Cardinality(EventsOf(EndCallbackOf(yielded[k]), k)) = 1
           /\ \A e \in EventsOf(EndCallbackOf(yielded[k]), k) :
                  /\ \A c \in CompletionsOf(k) : c < e
                  /\ \A n \in EventsOf("next", k + 1) : e < n

(* C15: in manage, when the action of a whitelist, approve or permit step    *)
(* rejects, or its transaction confirmation fails, the matching end callback *)
(* is invoked exactly once with the error as argument before the error       *)
(* propagates out of manage.  Stated for the collateral tokens the position  *)
(* supports.  The code violates it: nothing in manage catches the error, so  *)
(* no end callback is invoked at all.                                        *)
C15_EndCallbackOnFailure ==
    \A k \in 1..Len(yielded) :
        (/\ SupportedRoute
         /\ IsWhitelist(yielded[k]) \/ IsAuthorization(yielded[k])
         /\ FailuresOf(k) # {}
         /\ ManageRejected)
        => /\ Cardinality(EventsOf(EndCallbackOf(yielded[k]), k)) = 1
           /\ \A e \in EventsOf(EndCallbackOf(yielded[k]), k) :
                  /\ log[e].value = Some(driverError)
                  /\ \A f \in FailuresOf(k) : f < e

\* steps whose action has been invoked and has neither completed nor failed
InFlight == {k \in 1..Len(yielded) : EventsOf("action", k) # {} /\ CompletionsOf(k) = {} /\ FailuresOf(k) = {}}

\* step k completed before position n of the history
CompletedBefore(k, n) == \E c \in CompletionsOf(k) : c < n

(* C16: manage never requests the next step and never invokes a later step's *)
(* action until the current step's action has resolved and, when the action  *)
(* returned a transaction, until its confirmation has resolved; at every     *)
(* moment at most one step action is in flight.                              *)
C16_OneStepAtATime ==
    /\ Cardinality(InFlight) <= 1
    /\ InFlight # {} <=> driverPc \in {"action", "wait"}
    /\ \A k \in 1..Len(yielded) :
           /\ \A n \in EventsOf("next", k + 1) : CompletedBefore(k, n)
           /\ \A j \in EventsOf("action", k) :
                  \A h \in 1..(k - 1) : CompletedBefore(h, j)
           /\ \A c \in EventsOf("confirmed", k) :
                  \E a \in EventsOf("resolved", k) : a < c

\* a second step is in flight after the transaction of the first was confirmed
C16_Witness ==
    /\ Len(yielded) >= 2
    /\ yielded[1].type.name \in {"whitelist", "approve"}
    /\ EventsOf("confirmed", 1) # {}
    /\ InFlight = {2}
    /\ driverPc = "wait"

\* the steps of the sequence that are permit steps, in the order they were yielded
PermitSteps == SelectSeq(yielded, LAMBDA step : step.type.name = "permit")

(* C17: manage resumes the sequence with exactly the signature returned by   *)
(* the immediately preceding permit step's action, and with undefined after  *)
(* every step whose action returned a transaction; a signature returned by   *)
(* an earlier permit step is never injected again at a later resume.         *)
C17_InjectedSignature ==
    /\ \A n \in EventsOf("next", 1) : log[n].value = undefined
    /\ \A k \in 1..Len(yielded) :
           \A n \in EventsOf("next", k + 1) :
               IF yielded[k].type.name = "permit"
               THEN \E a \in EventsOf("resolved", k) :
                        /\ a < n
                        /\ log[a].value # undefined
                        /\ log[n].value = log[a].value
               ELSE log[n].value = undefined
    /\ driverPc = "resume" /\ LastStep.type.name # "permit" => driverPermitSignature = undefined
    /\ \A i \in 1..Len(permitResumes) :
           /\ permitResumes[i].value # undefined
           /\ \E a \in EventsOf("resolved", PermitSteps[i].stepNumber) :
                  permitResumes[i].value = log[a].value

\* manage returned after two permit steps, each resumed with its own signature, the
\* resume after the manage transaction being made with undefined
C17_Witness ==
    /\ ManageReturned
    /\ Len(PermitSteps) = 2
    /\ permitResumes[1].value # permitResumes[2].value
    /\ \A k \in 1..Len(yielded) :
           yielded[k].type.name = "permit" =>
               \E n \in EventsOf("next", k + 1) : log[n].value # undefined
    /\ \E n \in EventsOf("next", Len(yielded) + 1) : log[n].value = undefined

(* C18: if any step's action rejects or any transaction confirmation fails,  *)
(* manage rejects with that error, the failed action is not invoked a second *)
(* time, and no later step's action (in particular the manage transaction)   *)
(* is invoked.                                                               *)
C18_FailurePropagates ==
    \A k \in 1..Len(yielded) :
        FailuresOf(k) # {} =>
            /\ ManageRejected
            /\ driverError = IF EventsOf("rejected", k) # {} THEN ActionRejected ELSE ConfirmationFailed
            /\ Cardinality(FailuresOf(k)) = 1
            /\ Cardinality(EventsOf("action", k)) = 1
            /\ FailuresOf(k) = {Len(log)}
            /\ Len(yielded) = k
            /\ \A h \in 1..Len(yielded) : h > k => EventsOf("action", h) = {}
            /\ EventsOf("next", k + 1) = {}
            /\ ~ENABLED DriverNext

\* the confirmation of the second step, an authorization, failed after the first step
\* was confirmed: the manage step was never reached
C18_Witness ==
    /\ ManageRejected
    /\ Len(yielded) = 2
    /\ EventsOf("confirmed", 1) # {}
    /\ EventsOf("failed", 2) # {}
    /\ IsAuthorization(yielded[2])
    /\ ~Yielded(IsManage)

\* the intent is one the sequence accepts: not both changes zero, and a collateral token
\* the position supports
AcceptedIntent == ~bothChangesZero(collateralChange, debtChange) /\ SupportedRoute

\* some step action rejected or some confirmation failed
SomeFailure == \E i \in 1..Len(log) : log[i].event \in {"rejected", "failed"}

\* manage returned after the confirmation of the manage transaction, having invoked the
\* action of each yielded step exactly once
ReturnedAfterManage ==
    /\ yielded # <<>>
    /\ IsManage(LastStep)
    /\ \A k \in 1..(Len(yielded) - 1) : ~IsManage(yielded[k])
    /\ EventsOf("confirmed", Len(yielded)) # {}
    /\ \A k \in 1..Len(yielded) :
           /\ Cardinality(EventsOf("action", k)) = 1
           /\ CompletionsOf(k) # {}
    /\ Cardinality({i \in 1..Len(log) : log[i].event = "action"}) = Len(yielded)
    /\ Len(yielded) <= 4
    /\ pc = "done"

(* C19: if every step action and every transaction confirmation eventually  *)
(* resolves, manage eventually completes normally, it does so only after the *)
(* manage step's transaction has been confirmed, and by then it has invoked  *)
(* the action of each yielded step exactly once (at most four actions).      *)
(* Stated for the intents the sequence accepts: a run in which no action and *)
(* no confirmation fails reaches the normal return of manage.                *)
C19_EventuallyReturns ==
    /\ [](ManageReturned => ReturnedAfterManage)
    /\ <>(AcceptedIntent /\ ~SomeFailure => ManageReturned)

\* manage returned after four actions
C19_Witness ==
    /\ ManageReturned
    /\ AcceptedIntent
    /\ Len(yielded) = 4
    /\ Yielded(IsWhitelist)

\* the steps whose transaction was confirmed on-chain
ConfirmedSteps == {k \in 1..Len(yielded) : EventsOf("confirmed", k) # {}}

\* the plan getManageSteps computes when called again for the same intent, nothing
\* prefetched: lines 384-419 read the chain state as it is now
FreshPlan == Plan(underlyingCollateralToken, collateralChange, debtChange, options, isEoa, chain)

(* C20: if a run stops after some whitelist or approve steps were confirmed  *)
(* on-chain (a later step failed, or the caller stopped iterating), the      *)
(* effects of those steps remain in the chain state, and a plan computed     *)
(* afresh for the same intent from the re-read chain state contains none of  *)
(* the already-confirmed whitelist or approve steps.  Every state before the *)
(* confirmation of the manage transaction is one at which the run may stop.  *)
C20_ConfirmedStepsSkipped ==
    (\A k \in ConfirmedSteps : ~IsManage(yielded[k])) =>
        /\ \A k \in ConfirmedSteps :
               /\ IsWhitelist(yielded[k]) =>
                      /\ chain.isDelegateWhitelisted
                      /\ ~FreshPlan.whitelistingStepNeeded
               /\ yielded[k].type.name = "approve" /\ yielded[k].type.token # R_TOKEN =>
                      /\ chain.collateralTokenAllowance = yielded[k].action.args.amount
                      /\ ~FreshPlan.collateralApprovalStepNeeded
               /\ yielded[k].type.name = "approve" /\ yielded[k].type.token = R_TOKEN =>
                      /\ chain.rTokenAllowance = yielded[k].action.args.amount
                      /\ ~FreshPlan.rTokenApprovalStepNeeded
        /\ yielded # <<>> => FreshPlan.numberOfSteps = plan.numberOfSteps - Cardinality(ConfirmedSteps)

\* manage was rejected at its third step after a whitelist step and an approve step,
\* both needed by the first plan, were confirmed
C20_Witness ==
    /\ ManageRejected
    /\ Len(yielded) = 3
    /\ ConfirmedSteps = {1, 2}
    /\ IsWhitelist(yielded[1])
    /\ yielded[2].type.name = "approve"
    /\ plan.whitelistingStepNeeded
    /\ FailuresOf(3) # {}

----------------------------------------------------------------------------
(* C21: in getManageSteps every authorization-state read (delegate whitelist *)
(* status, collateral allowance, R allowance, signer EOA check) has          *)
(* completed before the first step is yielded and none is performed after a  *)
(* step has been yielded; numberOfSteps is computed once from these values,  *)
(* and the order of the step kinds does not depend on which read resolved    *)
(* first.  Checked under manage, where the chain state changes between the   *)
(* steps: what is yielded after a confirmation still follows the values read *)
(* before the first step.                                                    *)

\* the optional steps the plan announces, in the order of the body
PlannedKinds ==
    (IF plan.whitelistingStepNeeded THEN <<"whitelist">> ELSE <<>>)
    \o (IF plan.collateralApprovalStepNeeded THEN <<"collateral">> ELSE <<>>)
    \o (IF plan.rTokenApprovalStepNeeded THEN <<"R">> ELSE <<>>)
    \o <<"manage">>

KindOf(step) ==
    CASE IsWhitelist(step) -> "whitelist"
      [] IsCollateralAuthorization(step) -> "collateral"
      [] IsRAuthorization(step) -> "R"
      [] OTHER -> "manage"

C21_StepsFollowThePlan ==
    /\ yielded # <<>> => Planned
    /\ Planned =>
           /\ plan.numberOfSteps = Len(PlannedKinds)
           /\ Len(yielded) <= plan.numberOfSteps
           /\ \A k \in 1..Len(yielded) :
                  /\ yielded[k].numberOfSteps = plan.numberOfSteps
                  /\ KindOf(yielded[k]) = PlannedKinds[k]

C21_PlanComputedOnce ==
    /\ pc = "start" /\ ~bothChangesZero(collateralChange, debtChange) =>
           /\ plan' = Plan(underlyingCollateralToken, collateralChange, debtChange, options, isEoa, chain)
           /\ plan'.chainReads = {r \in {"isDelegateWhitelisted", "collateralTokenAllowance", "rTokenAllowance"} :
                                      \/ r = "isDelegateWhitelisted" /\ plan'.whitelistingRequired
                                      \/ r = "collateralTokenAllowance" /\ plan'.collateralTokenAllowanceRequired
                                      \/ r = "rTokenAllowance" /\ plan'.rTokenAllowanceRequired}
           /\ chain' = chain
    /\ pc # "start" => plan' = plan

C21_ReadsBeforeFirstStep == []C21_StepsFollowThePlan /\ [][C21_PlanComputedOnce]_vars

\* a step was yielded after the confirmation of an earlier one had changed the chain
\* state the plan was computed from
C21_Witness ==
    /\ driverPc = "action"
    /\ Len(yielded) >= 2
    /\ ConfirmedSteps # {}
    /\ FreshPlan.numberOfSteps # plan.numberOfSteps
    /\ LastStep.numberOfSteps = plan.numberOfSteps

----------------------------------------------------------------------------
(* C22: whenever the authorization for a token was satisfied by an existing  *)
(* allowance or by an approve step (no permit signature obtained), the       *)
(* permit parameter passed to the terminal manage call for that token is the *)
(* empty sentinel: zero address, zero value, zero deadline and zero v, r, s. *)

IsEmptySentinel(sig) ==
    /\ sig.token = ZeroAddress
    /\ sig.value = 0
    /\ sig.deadline = 0
    /\ sig.v = 0
    /\ sig.r = 0
    /\ sig.s = 0

\* the permit parameter of the manage call is the one of the collateral token: the call
\* goes to the position manager itself
ManageCallTakesCollateralPermit ==
    method = "getManageSteps" /\ LastStep.action.target = "positionManager"

\* a permit step for the token whose signature the manage call takes was yielded
PermitStepForManageCall ==
    \E k \in 1..Len(yielded) :
        /\ yielded[k].type.name = "permit"
        /\ (yielded[k].type.token # R_TOKEN) = ManageCallTakesCollateralPermit

ApproveStepForManageCall ==
    \E k \in 1..Len(yielded) :
        /\ yielded[k].type.name = "approve"
        /\ (yielded[k].type.token # R_TOKEN) = ManageCallTakesCollateralPermit

C22_EmptySentinelWithoutPermit ==
    ManageYielded /\ ~PermitStepForManageCall =>
        IsEmptySentinel(LastStep.action.args.permitSignature)

\* the manage step was yielded after an approve step for the token of its permit parameter
C22_Witness ==
    /\ ManageYielded
    /\ ApproveStepForManageCall
    /\ ~PermitStepForManageCall
    /\ IsEmptySentinel(LastStep.action.args.permitSignature)

----------------------------------------------------------------------------
(* C23: the action of an approve step requests an allowance equal to exactly *)
(* the amount of the change being authorized (the collateral change for the  *)
(* collateral token, the absolute debt change for the R token), never a      *)
(* larger or unlimited amount, so that after its confirmation the allowance  *)
(* equals the requested amount.  Stated for the collateral tokens the        *)
(* position supports.  The code violates it when the position is closed: the *)
(* debt change is then the sentinel -MAX_DECIMAL and the approve step for R  *)
(* asks for MAX_DECIMAL, the amount the code itself uses as "no limit".      *)

\* the allowance the chain holds for the token of an approve step
ChainAllowanceFor(step) ==
    IF step.type.token = R_TOKEN THEN chain.rTokenAllowance ELSE chain.collateralTokenAllowance

C23_ApproveExactAmount ==
    SupportedRoute =>
        \A k \in 1..Len(yielded) :
            yielded[k].type.name = "approve" =>
                /\ yielded[k].action.call = "approve"
                /\ yielded[k].action.args.amount =
                       (IF yielded[k].type.token = R_TOKEN THEN abs(debtChange) ELSE collateralChange)
                /\ yielded[k].action.args.amount < MAX_DECIMAL
                /\ (k \in ConfirmedSteps /\ \A h \in ConfirmedSteps : ~IsManage(yielded[h])) =>
                       ChainAllowanceFor(yielded[k]) = yielded[k].action.args.amount

----------------------------------------------------------------------------
(* C24: in manage, onApprovalStart is invoked exactly once for each yielded  *)
(* approve or permit step and is never invoked when no authorization step is *)
(* yielded; onDelegateWhitelistingStart is invoked exactly once if a         *)
(* whitelist step is yielded and never otherwise; no callback is invoked for *)
(* the manage step.                                                          *)

Callbacks ==
    {"onDelegateWhitelistingStart", "onDelegateWhitelistingEnd", "onApprovalStart", "onApprovalEnd"}

\* the positions of the history where the callback was invoked, for whatever step
CallsOf(callback) == {i \in 1..Len(log) : log[i].event = callback}

StepsWhere(P(_)) == {k \in 1..Len(yielded) : P(yielded[k])}

C24_StartCallbacks ==
    /\ \A k \in 1..Len(yielded) :
           /\ IsAuthorization(yielded[k]) =>
                  /\ Cardinality(EventsOf("onApprovalStart", k)) = 1
                  /\ EventsOf("onDelegateWhitelistingStart", k) = {}
           /\ IsWhitelist(yielded[k]) =>
                  /\ Cardinality(EventsOf("onDelegateWhitelistingStart", k)) = 1
                  /\ EventsOf("onApprovalStart", k) = {}
           /\ IsManage(yielded[k]) =>
                  \A c \in Callbacks : EventsOf(c, k) = {}
    /\ Cardinality(CallsOf("onApprovalStart")) = Cardinality(StepsWhere(IsAuthorization))
    /\ Cardinality(CallsOf("onDelegateWhitelistingStart")) = Cardinality(StepsWhere(IsWhitelist))
    /\ Cardinality(StepsWhere(IsWhitelist)) <= 1

\* manage returned after a whitelist step and two authorization steps
C24_Witness ==
    /\ ManageReturned
    /\ Cardinality(StepsWhere(IsWhitelist)) = 1
    /\ Cardinality(StepsWhere(IsAuthorization)) = 2
    /\ Cardinality(CallsOf("onApprovalStart")) = 2

\* manage returned without any authorization step: onApprovalStart was never invoked
C24_WitnessNoAuthorization ==
    /\ ManageReturned
    /\ StepsWhere(IsAuthorization) = {}
    /\ CallsOf("onApprovalStart") = {}

----------------------------------------------------------------------------
(* C25: a value injected at a resume point that does not immediately follow  *)
(* a permit step (the first advance, or the resume after a whitelist or      *)
(* approve step) is ignored: the remaining step sequence and the parameters  *)
(* of the manage call are identical to those obtained when undefined is      *)
(* injected there.  The consumer resumes with undefined, with a signature no *)
(* step produced, or with any other value: every such resume leaves the      *)
(* generator where the resume with undefined leaves it.                      *)

NotAfterPermit == method = "getManageSteps" /\ pc \in {"start", "whitelist", "collateralApprove", "rApprove"}

AsWithUndefined ==
    /\ pc' = nextOutcome(undefined).pc
    /\ yielded' = yielded \o nextOutcome(undefined).out
    /\ stepCounter' = nextOutcome(undefined).stepCounter
    /\ collateralPermitSignature' = nextOutcome(undefined).collateralPermitSignature
    /\ rPermitSignature' = nextOutcome(undefined).rPermitSignature
    /\ error' = nextOutcome(undefined).error
    /\ permitResumes' = permitResumes

C25_InjectedValueIgnored == [][NotAfterPermit => AsWithUndefined]_vars

\* the sequence was resumed after a whitelist step and after an approve step of the
\* collateral token, and went on to the manage step, whose permit parameter is the empty one
C25_Witness ==
    /\ method = "getManageSteps"
    /\ pc = "manage"
    /\ Yielded(IsWhitelist)
    /\ \E k \in 1..Len(yielded) :
           yielded[k].type.name = "approve" /\ IsCollateralAuthorization(yielded[k])
    /\ ~Yielded(IsRAuthorization)
    /\ LastStep.action.args.permitSignature = createEmptyPermitSignature

----------------------------------------------------------------------------
(* C26: open, addCollateral, withdrawCollateral, borrow and repayDebt reject *)
(* with an error when their amount argument is less than or equal to zero    *)
(* (for open: when either the collateral amount or the debt amount is), and  *)
(* in that case no step sequence is started and no chain interaction takes   *)
(* place.                                                                    *)

\* the arguments of the operation hold an amount that is not positive
NonPositiveAmount ==
    /\ invocation.name \in {"open", "addCollateral", "withdrawCollateral", "borrow", "repayDebt"}
    /\ \E i \in 1..Len(invocation.args) : invocation.args[i] <= 0

\* neither manage nor the sequence has run: nothing was read from the chain, no step was
\* yielded, no action invoked
NothingStarted ==
    /\ driverPc = "none"
    /\ log = <<>>
    /\ pc = "start"
    /\ plan = NoPlan
    /\ yielded = <<>>

C26_NonPositiveAmountRejected ==
    NonPositiveAmount =>
        /\ NothingStarted
        /\ invocation.pc # "called" =>
               /\ invocation.pc = "rejected"
               /\ invocation.error \in {CollateralAmountError, DebtAmountError, AmountError}
               /\ invocation.name = "open" =>
                      invocation.error = (IF invocation.args[1] <= 0 THEN CollateralAmountError ELSE DebtAmountError)
               /\ ~ENABLED WrapperNext

\* open was rejected for a debt amount of zero, the collateral amount being positive
C26_Witness ==
    /\ invocation.name = "open"
    /\ invocation.pc = "rejected"
    /\ invocation.args[1] > 0
    /\ invocation.args[2] = 0
    /\ NothingStarted

----------------------------------------------------------------------------
(* C27: the action of a permit step returns a signature whose value equals   *)
(* the requested amount, whose token is the token contract's address, and    *)
(* whose deadline equals the signing time in seconds plus 1800 (30 minutes); *)
(* the signed domain carries the token's on-chain name and the configured    *)
(* network's chain id.                                                       *)

PermitSigned == invocation.name = "createPermitSignature" /\ invocation.pc = "resolved"

\* the whole seconds of a clock reading in milliseconds
IsSecondsOf(sec, ms) == sec * 1000 <= ms /\ ms < (sec + 1) * 1000

C27_PermitSignatureFields ==
    PermitSigned =>
        /\ invocation.result.value = invocation.args.amount
        /\ invocation.result.token = invocation.args.tokenContract.address
        /\ \E sec \in 0..(MaxTime + 1) :
               /\ IsSecondsOf(sec, invocation.now)
               /\ invocation.result.deadline = sec + 30 * 60
        /\ invocation.signed.domain.name = invocation.args.tokenContract.name
        /\ invocation.signed.domain.chainId =
               (IF invocation.env.network = "mainnet" THEN 1 ELSE 5)
        /\ invocation.signed.domain.verifyingContract = invocation.result.token
        /\ invocation.signed.values.value = invocation.result.value
        /\ invocation.signed.values.deadline = invocation.result.deadline
        /\ invocation.signed.values.owner = invocation.args.signer
        /\ invocation.signed.values.spender = invocation.args.spenderAddress

\* a signature for R on mainnet, signed one millisecond before the turn of a second
C27_Witness ==
    /\ PermitSigned
    /\ invocation.now = 1999
    /\ invocation.result.deadline = 1801
    /\ invocation.env.network = "mainnet"
    /\ invocation.args.tokenContract.address = getTokenAddress("R")

----------------------------------------------------------------------------
(* C28: Allowance.fetchAllowance returns, unchanged, the value that the      *)
(* token contract's allowance call reports for the wallet address and        *)
(* spender address given at construction, for every token, wallet, spender   *)
(* and reported value.                                                       *)

AllowanceFetched == invocation.name = "fetchAllowance" /\ invocation.pc = "resolved"
HasTokenContract == getTokenAddress(invocation.args.token) # ZeroAddress

----------------------------------------------------------------------------
(* C29: when the caller supplies a cached permit signature for a token,      *)
(* permit is usable for that token and the current allowance is              *)
(* insufficient, no permit step is yielded and the call parameters of the    *)
(* terminal manage / manageSavings step carry that cached signature, not the *)
(* empty sentinel.  Stated for the token whose permit the terminal call      *)
(* takes, on the routes the position's underlying token supports: the        *)
(* collateral token when the call goes to the position manager, R when it    *)
(* goes to a delegate or to the savings module.                              *)

PermitStepYieldedFor(token) ==
    \E k \in 1..Len(yielded) : yielded[k].type.name = "permit" /\ yielded[k].type.token = token

CarriesCached(cached) ==
    /\ ~IsEmptySentinel(LastStep.action.args.permitSignature)
    /\ LastStep.action.args.permitSignature = Get(cached)

C29_CachedSignatureEmbedded ==
    /\ (/\ SupportedRoute
        /\ ManageYielded
        /\ RequestedCollateralToken = underlyingCollateralToken
        /\ options.collateralPermitSignature # undefined
        /\ PermitUsable /\ supportsPermit(RequestedCollateralToken)
        /\ CollateralAllowanceShort)
           => /\ ~PermitStepYieldedFor(RequestedCollateralToken)
              /\ CarriesCached(options.collateralPermitSignature)
    /\ (/\ SupportedRoute
        /\ ManageYielded
        /\ RequestedCollateralToken # underlyingCollateralToken
        /\ options.rPermitSignature # undefined
        /\ PermitUsable
        /\ RAllowanceShort)
           => /\ ~PermitStepYieldedFor(R_TOKEN)
              /\ CarriesCached(options.rPermitSignature)
    /\ (/\ method = "getManageSavingsSteps"
        /\ ManageYielded
        /\ options.rPermitSignature # undefined
        /\ PermitUsable
        /\ SavingsAllowanceShort)
           => /\ ~PermitStepYieldedFor(R_TOKEN)
              /\ CarriesCached(options.rPermitSignature)

----------------------------------------------------------------------------
(* C30: when the collateral token is not supported for the position's        *)
(* underlying collateral token, getManageSteps raises the 'does not support  *)
(* collateral token' error before yielding any whitelist, approve or permit  *)
(* step, so that no authorization action can be executed for a route that    *)
(* has no manage step.  Stated for the runs in which the error is raised.    *)

UnsupportedRouteRaised ==
    /\ method = "getManageSteps"
    /\ pc = "thrown"
    /\ error = UnsupportedRouteError(underlyingCollateralToken, RequestedCollateralToken)

----------------------------------------------------------------------------
(* C31: the promise returned by open, close, addCollateral,                  *)
(* withdrawCollateral, borrow and repayDebt settles only after the           *)
(* underlying manage run has finished (the manage transaction confirmed),    *)
(* and it rejects with the error of manage when a step of that run fails.    *)

OperationResolved == invocation.name # "none" /\ invocation.pc = "resolved"
OperationRejectedWith(e) == invocation.pc = "rejected" /\ invocation.error = e

C31_SettlesAfterManage ==
    /\ OperationResolved => ManageReturned
    /\ ManageRejected => OperationRejectedWith(driverError)

----------------------------------------------------------------------------
(* C32: for every intent with collateralChange = 0 and a nonzero debtChange  *)
(* other than the close sentinel, getManageSteps operates on the position's  *)
(* underlying collateral token whatever collateralToken option was passed:   *)
(* it yields exactly one step, manage sent to the base position manager,     *)
(* with numberOfSteps 1 and no whitelist or authorization step, for every    *)
(* whitelist and allowance state.                                            *)

DebtOnlyIntent ==
    /\ method = "getManageSteps"
    /\ collateralChange = 0
    /\ debtChange # 0
    /\ debtChange # DEBT_CHANGE_TO_CLOSE

C32_DebtOnlyUsesUnderlying ==
    (DebtOnlyIntent /\ pc # "start") =>
        /\ pc \in {"manage", "done"}
        /\ error = NoError
        /\ Len(yielded) = 1
        /\ yielded[1].type.name = "manage"
        /\ yielded[1].stepNumber = 1
        /\ yielded[1].numberOfSteps = 1
        /\ yielded[1].action.call = "managePosition"
        /\ yielded[1].action.target = "positionManager"
        /\ yielded[1].action.args.collateralToken = getTokenAddress(underlyingCollateralToken)
        /\ yielded[1].action.args.absoluteCollateralChangeValue = 0
        /\ yielded[1].action.args.absoluteDebtChangeValue = abs(debtChange)
        /\ yielded[1].action.args.isDebtIncrease = (debtChange > 0)

\* a repayment with the option naming a delegate route, the delegate not whitelisted and no
\* R allowance: the sequence has ended after its single manage step
C32_Witness ==
    /\ DebtOnlyIntent
    /\ debtChange < 0
    /\ options.collateralToken = Some("stETH")
    /\ underlyingCollateralToken = "wstETH"
    /\ ~KnownWhitelisted
    /\ KnownRAllowance = 0
    /\ pc = "done"
    /\ Len(yielded) = 1

----------------------------------------------------------------------------
(* C33: in every getManageSteps sequence, over all combinations of           *)
(* underlying token and collateral token, a whitelist step or an R-token     *)
(* authorization step is yielded only if the manage step is sent to a        *)
(* delegate contract (wrapped or stETH position manager); a manage step sent *)
(* to the base position manager is never preceded by a whitelist step or an  *)
(* R-token authorization step.  Stated for the sequences that reach their    *)
(* manage step.                                                              *)

ManageSentToBase ==
    /\ method = "getManageSteps"
    /\ ManageYielded
    /\ LastStep.action.target = "positionManager"

----------------------------------------------------------------------------
(* C34: in getManageSavingsSteps the deposit is submitted through the        *)
(* permit-taking entry point (depositWithPermit) only when a non-empty       *)
(* permit signature is available for it; when the authorization came from an *)
(* existing allowance or an approve step, the plain deposit entry point is   *)
(* used.  This is the claim as stated, for the calls without a cached        *)
(* signature.                                                                *)

SavingsDepositYielded ==
    /\ method = "getManageSavingsSteps"
    /\ ManageYielded
    /\ amount > 0
    /\ options.rPermitSignature = undefined

C34_PermitEntryPointNeedsSignature ==
    SavingsDepositYielded =>
        /\ LastStep.action.call = "depositWithPermit"
               => ~IsEmptySentinel(LastStep.action.args.permitSignature)
        /\ ~PermitStepYieldedFor(R_TOKEN) => LastStep.action.call = "deposit"

(* C34, amended: in getManageSavingsSteps a deposit is submitted through     *)
(* depositWithPermit exactly when permit is usable (the signer is an         *)
(* externally-owned account and the approval preference is 'permit'), with   *)
(* the signature its permit step was resumed with when such a step was       *)
(* yielded and with the empty sentinel otherwise, also when the allowance    *)
(* already covers the amount; when permit is not usable the plain deposit    *)
(* entry point is used.                                                      *)

SavingsDeposit ==
    /\ method = "getManageSavingsSteps"
    /\ ManageYielded
    /\ amount > 0

C34_EntryPointFollowsPermitUsable ==
    SavingsDeposit =>
        IF PermitUsable
        THEN /\ LastStep.action.call = "depositWithPermit"
             /\ IF PermitStepYieldedFor(R_TOKEN)
                THEN /\ permitResumes # <<>>
                     /\ LastStep.action.args.permitSignature = Get(LastPermitResume.value)
                     /\ ~IsEmptySentinel(LastStep.action.args.permitSignature)
                ELSE IsEmptySentinel(LastStep.action.args.permitSignature)
        ELSE /\ LastStep.action.call = "deposit"
             /\ ~PermitStepYieldedFor(R_TOKEN)

\* a deposit by an externally-owned account whose allowance covers the amount: no
\* authorization step, depositWithPermit with the empty sentinel
C34_Witness ==
    /\ SavingsDeposit
    /\ PermitUsable
    /\ KnownRAllowance >= amount
    /\ Len(yielded) = 1
    /\ LastStep.action.call = "depositWithPermit"
    /\ IsEmptySentinel(LastStep.action.args.permitSignature)

----------------------------------------------------------------------------
(* C35: getManageSavingsSteps with amount less than or equal to zero yields  *)
(* exactly one step, manageSavings performing a withdrawal of the absolute   *)
(* amount, with numberOfSteps 1, and never reads or requires the R           *)
(* allowance, even when the caller passes a prefetched allowance of zero;    *)
(* with a positive amount it yields at most one authorization step, followed *)
(* by manageSavings performing a deposit.                                    *)

SavingsStarted == method = "getManageSavingsSteps" /\ pc # "start"

AuthorizationStepsYielded == Cardinality({k \in 1..Len(yielded) : IsAuthorization(yielded[k])})

C35_SavingsDirection ==
    /\ (SavingsStarted /\ amount <= 0) =>
           /\ pc \in {"manageSavings", "done"}
           /\ error = NoError
           /\ Len(yielded) = 1
           /\ yielded[1].type.name = "manageSavings"
           /\ yielded[1].stepNumber = 1
           /\ yielded[1].numberOfSteps = 1
           /\ yielded[1].action.call = "withdraw"
           /\ yielded[1].action.args.amount = abs(amount)
           /\ "rTokenAllowance" \notin ChainReads
           /\ ~plan.rTokenAllowanceRequired
    /\ (SavingsStarted /\ amount > 0) =>
           /\ AuthorizationStepsYielded <= 1
           /\ \A k \in 1..Len(yielded) :
                  \/ IsRAuthorization(yielded[k]) /\ k = 1
                  \/ /\ yielded[k].type.name = "manageSavings"
                     /\ k = Len(yielded)
                     /\ k = yielded[k].numberOfSteps
                     /\ yielded[k].action.call \in {"deposit", "depositWithPermit"}
                     /\ yielded[k].action.args.amount = amount
           /\ pc = "done" => ManageYielded

\* a withdrawal requested with a prefetched allowance of zero has run to its end
C35_Witness ==
    /\ method = "getManageSavingsSteps"
    /\ amount < 0
    /\ options.rTokenAllowance = Some(0)
    /\ pc = "done"
    /\ Len(yielded) = 1

\* a deposit that needed an approve step has run to its end
C35_WitnessDeposit ==
    /\ method = "getManageSavingsSteps"
    /\ amount > 0
    /\ pc = "done"
    /\ Len(yielded) = 2
    /\ yielded[1].type.name = "approve"

----------------------------------------------------------------------------
(* C36: getLeverageSteps never yields a permit step: whenever a collateral   *)
(* authorization is needed it is an approve step, for every signer type and  *)
(* approval preference, and the sequence is an optional whitelist step, then *)
(* an optional approve step, then the leverage step, with contiguous         *)
(* stepNumber values and a constant numberOfSteps equal to the number of     *)
(* yielded steps.                                                            *)

IsLeverage(step) == step.type.name = "leverage"

C36_LeverageNeverPermit ==
    method = "getLeverageSteps" =>
        /\ \A k \in 1..Len(yielded) :
               /\ yielded[k].type.name \in {"whitelist", "approve", "leverage"}
               /\ yielded[k].stepNumber = k
               /\ yielded[k].numberOfSteps = plan.numberOfSteps
               /\ IsWhitelist(yielded[k]) => k = 1
               /\ IsAuthorization(yielded[k]) =>
                      /\ yielded[k].type.name = "approve"
                      /\ yielded[k].type.token = plan.collateralToken
                      /\ plan.collateralApprovalStepNeeded
                      /\ \A j \in 1..(k - 1) : IsWhitelist(yielded[j])
               /\ IsLeverage(yielded[k]) => k = Len(yielded)
        /\ pc \in {"leverage", "done"} =>
               /\ IsLeverage(LastStep)
               /\ Len(yielded) = plan.numberOfSteps
               /\ plan.whitelistingStepNeeded = Yielded(IsWhitelist)
               /\ plan.collateralApprovalStepNeeded = Yielded(IsAuthorization)

\* an externally-owned account with the default approval type, on the wstETH route whose
\* token supports permit: whitelist, approve, leverage
C36_Witness ==
    /\ method = "getLeverageSteps"
    /\ isEoa
    /\ options.approvalType = undefined
    /\ plan # NoPlan
    /\ plan.collateralToken = "wstETH"
    /\ pc = "done"
    /\ Len(yielded) = 3
    /\ yielded[2].type.name = "approve"

----------------------------------------------------------------------------
(* The direct manage: the order of its phases *)

PhaseEvents(phase) == {i \in 1..Len(log) : log[i].step = phase}

\* everything of the first phase precedes everything of the second
PhasePrecedes(first, second) ==
    \A i \in PhaseEvents(first), j \in PhaseEvents(second) : i < j

\* the call needs the whitelisting, the collateral authorization and the R authorization,
\* and each of them has acted
AllAuthorizationsPerformed ==
    /\ PhaseEvents("whitelist") # {}
    /\ PhaseEvents("collateral") # {}
    /\ PhaseEvents("R") # {}

\* C37: in the direct manage, when the delegate whitelisting, the collateral-token
\* authorization and the R-token authorization are all needed, they are performed in the
\* order whitelisting, collateral authorization, R authorization, each finished before
\* the next starts, and the manage transaction comes last.
C37_DirectAuthorizationOrder ==
    AllAuthorizationsPerformed =>
        /\ PhasePrecedes("whitelist", "collateral")
        /\ PhasePrecedes("collateral", "R")
        /\ PhasePrecedes("R", "manage")

\* a transaction was submitted or a callback was called
DirectSideEffects ==
    {i \in 1..Len(log) : log[i].event \in {"transaction", "onDelegateWhitelistingStart",
         "onDelegateWhitelistingEnd", "onApprovalStart", "onApprovalEnd"}}

\* C38: in the direct manage, a call with collateral token ETH and a collateral change that
\* is not an increase is rejected with 'ETH withdrawal from the position is not supported'
\* before any transaction was submitted and before any callback was called.
C38_EthWithdrawalRejectedFirst ==
    (/\ method = "manage"
     /\ options.collateralToken = Some("ETH")
     /\ ~(collateralChange > 0)) =>
        /\ DirectSideEffects = {}
        /\ driverPc \in {"returned", "rejected"} =>
               driverPc = "rejected" /\ driverError = EthWithdrawalError

----------------------------------------------------------------------------
(* Position: the stored amounts *)

IsPosition == invocation.name = "Position"

\* the fields that were assigned hold no negative amount
StoredAmountsNonNegative ==
    IsPosition =>
        /\ \A c \in invocation.collateral : c >= 0
        /\ \A d \in invocation.debt : d >= 0

\* the step is the constructor called with a negative amount
NegativeConstruction ==
    /\ IsPosition
    /\ invocation.pc = "new"
    /\ invocation'.pc # "new"
    /\ invocation.args.collateral < 0 \/ invocation.args.debt < 0

\* the step is a setter called with a negative amount
NegativeSetterCall ==
    /\ IsPosition
    /\ Len(log') = Len(log) + 1
    /\ log'[Len(log')].step < 0

StoredAmountsUnchanged ==
    /\ invocation'.collateral = invocation.collateral
    /\ invocation'.debt = invocation.debt

NegativeAmountThrows ==
    /\ NegativeConstruction =>
           /\ invocation'.pc = "thrown"
           /\ invocation'.error = AmountNegativeError
           /\ StoredAmountsUnchanged
    /\ NegativeSetterCall =>
           /\ invocation'.error = AmountNegativeError
           /\ log'[Len(log')].value = Some(AmountNegativeError)
           /\ StoredAmountsUnchanged

\* C39: after any sequence of construction, setCollateral and setDebt calls the stored
\* collateral and debt are not negative: a construction or setter call with a negative
\* amount throws 'Amount cannot be negative' and leaves the stored amounts unchanged.
C39_StoredAmountsNonNegative ==
    []StoredAmountsNonNegative /\ [][NegativeAmountThrows]_vars

\* a constructed position whose setters were called with a negative amount and, later,
\* with the largest amount
C39_Witness ==
    /\ IsPosition
    /\ invocation.pc = "constructed"
    /\ \E i, j \in 1..Len(log) : i < j /\ log[i].step < 0 /\ log[j].step = MaxAmount
    /\ invocation.error = AmountNegativeError

====
